---- MODULE Spec2Model ----
(***************************************************************************)
(* Archive ingestion of the viewer: the file-name sanitizer and the ZIP    *)
(* bomb detector (zipSecurity: FileNameHandler, ZipBombDetector), the      *)
(* archive reader (ZipHandler), the ZIP handlers of the main process and  *)
(* the cache of extracted files (TempFileManager).                         *)
(*                                                                         *)
(* A string is a sequence of characters; a character is a one-element      *)
(* name ("a", "/", ...).  Node's `path` functions are modelled with their  *)
(* POSIX behaviour ('/' is the only separator).                            *)
(***************************************************************************)
EXTENDS Integers, Sequences, FiniteSets, TLC

VARIABLES
    fileName,          \* sanitizer: the string handed to sanitizeFileName
    sanitized,         \* sanitizer: <<>> before the call, <<result>> after it
    entries,           \* the archive: its members in central-directory order
    padCount,          \* the archive: how many further PadEntry members follow
    archiveFile,       \* the archive file: "ok", "missing", "unparsable", "unreadable"
    pathMappingCache,  \* ZipHandler.pathMappingCache: zipPath -> (key -> raw name)
    listing,           \* outcome of the last listMediaFiles / zip:scan
    extraction,        \* outcome of the last extractFile / zip:extractFile
    tempFiles,         \* TempFileManager.tempFiles: the records, oldest access first
    nextTempId,        \* the number of the next temp file name (each name is fresh)
    detection,         \* outcome of the last detectZipBomb call
    validation,        \* outcome of the last validateEntry call
    tempDir,           \* the files of TempFileManager.TEMP_DIR: name -> file
    tasks,             \* the calls of TempFileManager in progress or finished
    now,               \* Date.now()
    initialized,       \* TempFileManager.initialized
    cleanupTimer,      \* TempFileManager.cleanupTimer, and the intervals that run
    tempFileCache,     \* ZipHandler.tempFileCache: cache key -> path of the file
    App                \* the viewer: the state hooks of App, and its rescans in flight

vars == <<fileName, sanitized, entries, padCount, archiveFile, pathMappingCache,
          listing, extraction, tempFiles, nextTempId, detection, validation,
          tempDir, tasks, now, initialized, cleanupTimer, tempFileCache, App>>

\* The state of the temp file manager next to its records.
managerVars == <<tempDir, tasks, now, initialized, cleanupTimer>>

(***************************************************************************)
(* Characters                                                              *)
(***************************************************************************)

\* The printable ASCII characters, code 32 .. 126, in code order (the double
\* quote, the backslash and the grave accent by name).
Ascii ==
    <<" ", "!", "<QUOT>", "#", "$", "%", "&", "'", "(", ")", "*", "+", ",", "-", ".", "/",
      "0", "1", "2", "3", "4", "5", "6", "7", "8", "9", ":", ";", "<", "=", ">", "?",
      "@", "A", "B", "C", "D", "E", "F", "G", "H", "I", "J", "K", "L", "M", "N", "O",
      "P", "Q", "R", "S", "T", "U", "V", "W", "X", "Y", "Z", "[", "<BSL>", "]", "^", "_",
      "<GRAVE>", "a", "b", "c", "d", "e", "f", "g", "h", "i", "j", "k", "l", "m", "n", "o",
      "p", "q", "r", "s", "t", "u", "v", "w", "x", "y", "z", "{", "|", "}", "~">>

\* Characters outside printable ASCII, by name: U+0001, U+0009 (tab), U+007F,
\* U+3042 (a hiragana letter), U+FFFD (the replacement character).
NamedCodes ==
    [c \in {"<SOH>", "<TAB>", "<DEL>", "<U3042>", "<UFFFD>"} |->
        CASE c = "<SOH>" -> 1
          [] c = "<TAB>" -> 9
          [] c = "<DEL>" -> 127
          [] c = "<U3042>" -> 12354
          [] c = "<UFFFD>" -> 65533]

\* The code of every character of the model.
CharCodes ==
    [c \in {Ascii[i] : i \in 1..Len(Ascii)} \cup DOMAIN NamedCodes |->
        IF c \in DOMAIN NamedCodes THEN NamedCodes[c]
        ELSE 31 + (CHOOSE i \in 1..Len(Ascii) : Ascii[i] = c)]

charCodeAt(c) == CharCodes[c]

Digits == {"0", "1", "2", "3", "4", "5", "6", "7", "8", "9"}

LowerCase == {Ascii[i] : i \in 66..91}

UpperCase == {Ascii[i] : i \in 34..59}

toUpperCase(s) ==
    [i \in 1..Len(s) |->
        IF s[i] \in LowerCase THEN Ascii[charCodeAt(s[i]) - 32 - 31] ELSE s[i]]

toLowerCase(s) ==
    [i \in 1..Len(s) |->
        IF s[i] \in UpperCase THEN Ascii[charCodeAt(s[i]) + 32 - 31] ELSE s[i]]

\* String.prototype.trim strips white space at both ends.  In normalizeFileName
\* the white space below U+0020 has been replaced by FORBIDDEN_CHARS before.
IsWhiteSpace(c) == c \in {" ", "<TAB>"}

trim(s) ==
    LET n == Len(s)
    IN  IF \A i \in 1..n : IsWhiteSpace(s[i]) THEN <<>>
        ELSE SubSeq(s,
                    CHOOSE i \in 1..n :
                        ~IsWhiteSpace(s[i]) /\ \A j \in 1..(i - 1) : IsWhiteSpace(s[j]),
                    CHOOSE i \in 1..n :
                        ~IsWhiteSpace(s[i]) /\ \A j \in (i + 1)..n : IsWhiteSpace(s[j]))

substring(s, from, to) ==
    LET lo == IF from < 0 THEN 0 ELSE IF from > Len(s) THEN Len(s) ELSE from
        hi == IF to < 0 THEN 0 ELSE IF to > Len(s) THEN Len(s) ELSE to
    IN  IF lo <= hi THEN SubSeq(s, lo + 1, hi) ELSE SubSeq(s, hi + 1, lo)

EndsWith(s, suffix) ==
    /\ Len(suffix) <= Len(s)
    /\ SubSeq(s, Len(s) - Len(suffix) + 1, Len(s)) = suffix

(***************************************************************************)
(* Node's path module (POSIX)                                              *)
(***************************************************************************)

isAbsolute(p) == Len(p) > 0 /\ p[1] = "/"

RECURSIVE SplitSlash(_)
\* p.split('/'): the pieces between the separators (empty pieces included).
SplitSlash(p) ==
    LET slashes == {i \in 1..Len(p) : p[i] = "/"}
    IN  IF slashes = {} THEN <<p>>
        ELSE LET k == CHOOSE i \in slashes : \A j \in slashes : i <= j
             IN  <<SubSeq(p, 1, k - 1)>> \o SplitSlash(SubSeq(p, k + 1, Len(p)))

RECURSIVE JoinSlash(_)
JoinSlash(segs) ==
    IF segs = <<>> THEN <<>>
    ELSE IF Len(segs) = 1 THEN segs[1]
    ELSE segs[1] \o <<"/">> \o JoinSlash(Tail(segs))

RECURSIVE NormalizeSegments(_, _, _)
\* normalizeString: empty and "." segments are dropped, ".." removes the segment
\* before it, or stays when there is none and the path may climb above its root.
NormalizeSegments(segs, res, allowAboveRoot) ==
    IF segs = <<>> THEN res
    ELSE LET s == Head(segs)
             next ==
                 IF s = <<>> \/ s = <<".">> THEN res
                 ELSE IF s = <<".", ".">>
                 THEN IF res # <<>> /\ res[Len(res)] # <<".", ".">>
                      THEN SubSeq(res, 1, Len(res) - 1)
                      ELSE IF allowAboveRoot THEN Append(res, s) ELSE res
                 ELSE Append(res, s)
         IN  NormalizeSegments(Tail(segs), next, allowAboveRoot)

normalizeString(p, allowAboveRoot) ==
    JoinSlash(NormalizeSegments(SplitSlash(p), <<>>, allowAboveRoot))

\* path.normalize
normalize(p) ==
    IF Len(p) = 0 THEN <<".">>
    ELSE LET abs == isAbsolute(p)
             trailingSeparator == p[Len(p)] = "/"
             body == normalizeString(p, ~abs)
         IN  IF Len(body) = 0
             THEN IF abs THEN <<"/">>
                  ELSE IF trailingSeparator THEN <<".", "/">> ELSE <<".">>
             ELSE (IF abs THEN <<"/">> ELSE <<>>) \o body
                  \o (IF trailingSeparator THEN <<"/">> ELSE <<>>)

\* path.relative('/', to) for an absolute `to`: the resolved path without its root.
relativeFromRoot(to) == normalizeString(to, FALSE)

\* The last component of p, trailing separators ignored (empty when p holds
\* separators only).
LastComponent(p) ==
    LET n == Len(p)
        end == IF \A i \in 1..n : p[i] = "/" THEN 0
               ELSE CHOOSE i \in 1..n : p[i] # "/" /\ \A j \in (i + 1)..n : p[j] = "/"
        start == IF \A i \in 1..end : p[i] # "/" THEN 1
                 ELSE 1 + CHOOSE i \in 1..end :
                              p[i] = "/" /\ \A j \in (i + 1)..end : p[j] # "/"
    IN  IF end = 0 THEN <<>> ELSE SubSeq(p, start, end)

\* path.extname: from the last '.' of the last component to its end; empty when
\* there is no '.', when the '.' is the component's first character, or when the
\* component is "..".
extname(p) ==
    LET comp == LastComponent(p)
        n == Len(comp)
        d == CHOOSE i \in 1..n : comp[i] = "." /\ \A j \in (i + 1)..n : comp[j] # "."
    IN  IF \A i \in 1..n : comp[i] # "." THEN <<>>
        ELSE IF d = 1 \/ comp = <<".", ".">> THEN <<>>
        ELSE SubSeq(comp, d, n)

\* path.basename(p, ext): the last component, without ext when it ends with ext
\* and is longer than ext.
basename(p, ext) ==
    LET comp == LastComponent(p)
    IN  IF ext = p /\ Len(ext) > 0 THEN <<>>
        ELSE IF Len(ext) > 0 /\ Len(ext) < Len(comp) /\ EndsWith(comp, ext)
        THEN SubSeq(comp, 1, Len(comp) - Len(ext))
        ELSE comp

(***************************************************************************)
(* FileNameHandler                                                         *)
(***************************************************************************)

MAX_FILENAME_LENGTH == 255

RESERVED_NAMES ==
    {<<"C", "O", "N">>, <<"P", "R", "N">>, <<"A", "U", "X">>, <<"N", "U", "L">>}
    \cup {<<"C", "O", "M", d>> : d \in Digits \ {"0"}}
    \cup {<<"L", "P", "T", d>> : d \in Digits \ {"0"}}

\* FORBIDDEN_CHARS = /[<>:"|?*\x00-\x1f]/g
IsForbiddenChar(c) ==
    c \in {"<", ">", ":", "<QUOT>", "|", "?", "*"} \/ charCodeAt(c) <= 31

replaceForbiddenChars(s) ==
    [i \in 1..Len(s) |-> IF IsForbiddenChar(s[i]) THEN "_" ELSE s[i]]

\* The length limit of normalizeFileName.
truncateFileName(normalized) ==
    IF Len(normalized) > MAX_FILENAME_LENGTH
    THEN LET ext == extname(normalized)
             baseName == basename(normalized, ext)
             maxBaseLength == MAX_FILENAME_LENGTH - Len(ext)
         IN  substring(baseName, 0, maxBaseLength) \o ext
    ELSE normalized

\* The reserved-name check of normalizeFileName.
prefixReservedName(normalized) ==
    LET baseName == toUpperCase(basename(normalized, extname(normalized)))
    IN  IF baseName \in RESERVED_NAMES THEN <<"_">> \o normalized ELSE normalized

\* normalizeFileName up to its length limit: path.normalize, the forbidden
\* characters, trim.
beforeLengthLimit(name) == trim(replaceForbiddenChars(normalize(name)))

normalizeFileName(name) ==
    prefixReservedName(truncateFileName(beforeLengthLimit(name)))

\* s.replace(/\.\./g, '__'): the matches are taken left to right and do not
\* overlap, so in a run of n dots the first 2 * (n \div 2) are replaced.
replaceDotDot(s) ==
    LET RunStart(i) ==
            CHOOSE r \in 1..i :
                /\ \A k \in r..i : s[k] = "."
                /\ (r = 1 \/ s[r - 1] # ".")
        RunEnd(i) ==
            CHOOSE e \in i..Len(s) :
                /\ \A k \in i..e : s[k] = "."
                /\ (e = Len(s) \/ s[e + 1] # ".")
        InMatch(i) ==
            (i - RunStart(i)) < 2 * ((RunEnd(i) - RunStart(i) + 1) \div 2)
    IN  [i \in 1..Len(s) |-> IF s[i] = "." /\ InMatch(i) THEN "_" ELSE s[i]]

\* s.replace(/^\/+/, '')
stripLeadingSlashes(s) ==
    IF \A i \in 1..Len(s) : s[i] = "/" THEN <<>>
    ELSE SubSeq(s, CHOOSE i \in 1..Len(s) :
                       s[i] # "/" /\ \A j \in 1..(i - 1) : s[j] = "/",
                Len(s))

\* s.replace(/^[a-zA-Z]:/, '')
stripDriveLetter(s) ==
    IF Len(s) >= 2 /\ s[1] \in (LowerCase \cup UpperCase) /\ s[2] = ":"
    THEN SubSeq(s, 3, Len(s))
    ELSE s

\* sanitizeFileName up to its call of normalizeFileName.
makeRelative(name) ==
    LET stripped == stripDriveLetter(stripLeadingSlashes(replaceDotDot(name)))
    IN  IF isAbsolute(stripped) THEN relativeFromRoot(stripped) ELSE stripped

sanitizeFileName(name) == normalizeFileName(makeRelative(name))

\* hasGarbledCharacters: /[�\u0000-\u0008\u000E-\u001F\u007F]/, or more than
\* 70 % of the characters outside ASCII.
hasGarbledCharacters(str) ==
    LET IsGarbledChar(c) ==
            LET code == charCodeAt(c)
            IN  code = 65533 \/ code <= 8 \/ (14 <= code /\ code <= 31) \/ code = 127
        nonAscii == Cardinality({i \in 1..Len(str) : charCodeAt(str[i]) > 127})
    IN  \/ \E i \in 1..Len(str) : IsGarbledChar(str[i])
        \/ 10 * nonAscii > 7 * Len(str)

\* The extensions of /\.(jpg|jpeg|png|gif|bmp|webp|mp4|avi|mkv|mov)$/i
MeaningfulExts ==
    {<<"j", "p", "g">>, <<"j", "p", "e", "g">>, <<"p", "n", "g">>, <<"g", "i", "f">>,
     <<"b", "m", "p">>, <<"w", "e", "b", "p">>, <<"m", "p", "4">>, <<"a", "v", "i">>,
     <<"m", "k", "v">>, <<"m", "o", "v">>}

\* extMatch ? extMatch[0] : '.jpg'
matchedExtension(name) ==
    LET hits == {e \in MeaningfulExts : EndsWith(toLowerCase(name), <<".">> \o e)}
    IN  IF hits = {} THEN <<".", "j", "p", "g">>
        ELSE LET e == CHOOSE x \in hits : TRUE
             IN  SubSeq(name, Len(name) - Len(e), Len(name))

\* name.match(/\d+/g): the maximal digit runs, as the set of their first indices.
DigitRunStarts(name) ==
    {i \in 1..Len(name) : name[i] \in Digits /\ (i = 1 \/ name[i - 1] \notin Digits)}

DigitRunLength(name, i) ==
    LET stops == {j \in i..Len(name) : name[j] \notin Digits}
    IN  IF stops = {} THEN Len(name) - i + 1
        ELSE (CHOOSE j \in stops : \A k \in stops : j <= k) - i

\* numberMatches.reduce((a, b) => a.length >= b.length ? a : b): the first of the
\* longest runs.
longestNumber(name) ==
    LET starts == DigitRunStarts(name)
        best == CHOOSE i \in starts :
                    \A j \in starts :
                        \/ DigitRunLength(name, j) < DigitRunLength(name, i)
                        \/ (DigitRunLength(name, j) = DigitRunLength(name, i) /\ i <= j)
    IN  SubSeq(name, best, best + DigitRunLength(name, best) - 1)

padStart3(s) == IF Len(s) >= 3 THEN s ELSE [i \in 1..(3 - Len(s)) |-> "0"] \o s

RECURSIVE HashFrom(_, _, _, _)
\* hash = ((hash << 5) - hash + charCode) & 0xffffffff over the characters from i
\* on: a 32-bit value, kept as its two 16-bit halves <<hi, lo>>.
HashFrom(name, i, hi, lo) ==
    IF i > Len(name) THEN <<hi, lo>>
    ELSE LET low == lo * 31 + charCodeAt(name[i])
         IN  HashFrom(name, i + 1, (hi * 31 + low \div 65536) % 65536, low % 65536)

\* Math.abs(hash % 999) of the signed 32-bit hash.
hashPageNumber(name) ==
    LET h == HashFrom(name, 1, 0, 0)
    IN  IF h[1] < 32768
        THEN (h[1] * 65536 + h[2]) % 999
        ELSE (((65536 - h[1]) % 999) * (65536 % 999) - h[2]) % 999

toString3(n) ==
    LET digit(k) == Ascii[17 + k]
    IN  IF n >= 100 THEN <<digit(n \div 100), digit((n \div 10) % 10), digit(n % 10)>>
        ELSE IF n >= 10 THEN <<digit(n \div 10), digit(n % 10)>>
        ELSE <<digit(n)>>

generateMeaningfulFileName(garbledName) ==
    LET ext == matchedExtension(garbledName)
        pageNumber ==
            IF DigitRunStarts(garbledName) # {}
            THEN padStart3(longestNumber(garbledName))
            ELSE padStart3(toString3(hashPageNumber(garbledName)))
    IN  <<"p", "a", "g", "e", "_">> \o pageNumber \o ext

\* decodeZipFileName(entry), given the entry's raw name.
decodeZipFileName(rawName) ==
    IF hasGarbledCharacters(rawName) THEN generateMeaningfulFileName(rawName)
    ELSE rawName

(***************************************************************************)
(* ZipBombDetector                                                         *)
(***************************************************************************)

MAX_COMPRESSION_RATIO == 100

MAX_NESTED_DEPTH == 10

MAX_TOTAL_EXTRACTED_SIZE == 1073741824

MAX_FILE_COUNT == 10000

SUSPICIOUS_RATIO_THRESHOLD == 500

\* 500 * 1024 * 1024, the size limit of validateEntry and ZipHandler.MAX_FILE_SIZE
MAX_FILE_SIZE == 524288000

\* size / compressedSize > limit, for compressedSize > 0 (no product is formed,
\* so that no intermediate value leaves the 32-bit range).
QuotientExceeds(size, compressedSize, limit) ==
    \/ size \div compressedSize > limit
    \/ (size \div compressedSize = limit /\ size % compressedSize > 0)

\* Mutant of ratioExceeds: a compressed size of 0 counts as a ratio over every
\* limit.
ratioExceedsUnguarded(size, compressedSize, limit) ==
    compressedSize = 0 \/ QuotientExceeds(size, compressedSize, limit)

\* totalCompressedSize > 0 ? totalUncompressedSize / totalCompressedSize : 0,
\* as a fraction.
averageRatio(totalUncompressedSize, totalCompressedSize) ==
    IF totalCompressedSize > 0
    THEN [numerator |-> totalUncompressedSize, denominator |-> totalCompressedSize]
    ELSE [numerator |-> 0, denominator |-> 1]

\* compressedSize > 0 ? size / compressedSize : 0, compared with a limit
ratioExceeds(size, compressedSize, limit) ==
    compressedSize > 0 /\ QuotientExceeds(size, compressedSize, limit)

\* The size check of validateEntry.
entryTooLarge(entry) == entry.size > MAX_FILE_SIZE

\* severity = severity === 'critical' ? 'critical' : to
raise(severity, to) == IF severity = "critical" THEN "critical" ELSE to

\* The size check of validateEntry: the severity after it.
sizeSeverity(entry) == IF entryTooLarge(entry) THEN "critical" ELSE "low"

\* Mutant of ratioSeverity: the check against SUSPICIOUS_RATIO_THRESHOLD comes
\* first.
ratioSeverityWatchFirst(entry, severity) ==
    IF ratioExceeds(entry.size, entry.compressedSize, SUSPICIOUS_RATIO_THRESHOLD)
    THEN raise(severity, "high")
    ELSE IF ratioExceeds(entry.size, entry.compressedSize, MAX_COMPRESSION_RATIO)
    THEN "critical"
    ELSE severity

\* The ratio checks of validateEntry: the severity after them.
ratioSeverity(entry, severity) ==
    IF ratioExceeds(entry.size, entry.compressedSize, MAX_COMPRESSION_RATIO)
    THEN "critical"
    ELSE IF ratioExceeds(entry.size, entry.compressedSize, SUSPICIOUS_RATIO_THRESHOLD)
    THEN raise(severity, "high")
    ELSE severity

\* Mutant of pathSeverity: a name that sanitization changes is rated critical.
pathSeverityCritical(pathChanged, severity) ==
    IF pathChanged THEN "critical" ELSE severity

\* The path check of validateEntry, pathChanged being
\* sanitizedPath !== entry.entryName: the severity after it.
pathSeverity(pathChanged, severity) ==
    IF pathChanged THEN raise(severity, "high") ELSE severity

\* The name-length check of validateEntry: the severity after it.
nameLengthSeverity(entry, severity) ==
    IF Len(entry.entryName) > 255 THEN raise(severity, "medium") ELSE severity

\* The issues validateEntry collects, by the check that reports each.
entryIssues(entry, pathChanged) ==
    (IF entryTooLarge(entry) THEN <<"size">> ELSE <<>>)
    \o (IF ratioExceeds(entry.size, entry.compressedSize, MAX_COMPRESSION_RATIO)
        THEN <<"ratio">>
        ELSE IF ratioExceeds(entry.size, entry.compressedSize, SUSPICIOUS_RATIO_THRESHOLD)
        THEN <<"ratio-watch">>
        ELSE <<>>)
    \o (IF pathChanged THEN <<"path">> ELSE <<>>)
    \o (IF Len(entry.entryName) > 255 THEN <<"name-length">> ELSE <<>>)

\* return { valid: severity !== 'critical', issues, severity }
validationResult(issues, severity) ==
    [valid |-> severity # "critical", issues |-> issues, severity |-> severity]

\* validateEntry after its call of sanitizeFileName.
validateChecked(entry, pathChanged) ==
    validationResult(
        entryIssues(entry, pathChanged),
        nameLengthSeverity(entry,
            pathSeverity(pathChanged, ratioSeverity(entry, sizeSeverity(entry)))))

validateEntry(entry) ==
    validateChecked(entry, sanitizeFileName(entry.entryName) # entry.entryName)

\* entry.entryName.split('/').length - 1
depthOf(name) == Cardinality({i \in 1..Len(name) : name[i] = "/"})

Max(a, b) == IF a >= b THEN a ELSE b

\* What the loop of detectZipBomb adds for n members equal to `entry`, whose
\* validation has the given severity.
accumulate(acc, entry, n, severity) ==
    [totalCompressedSize |-> acc.totalCompressedSize + n * entry.compressedSize,
     totalUncompressedSize |-> acc.totalUncompressedSize + n * entry.size,
     maxDepth |-> IF n > 0 THEN Max(acc.maxDepth, depthOf(entry.entryName))
                  ELSE acc.maxDepth,
     suspiciousFileCount |-> acc.suspiciousFileCount + (IF severity = "high" THEN n ELSE 0),
     blockedFileCount |-> acc.blockedFileCount + (IF severity = "critical" THEN n ELSE 0),
     reasons |-> acc.reasons
                 \o (IF severity = "critical" THEN [i \in 1..n |-> "critical-entry"]
                     ELSE IF severity = "high" THEN [i \in 1..n |-> "high-entry"]
                     ELSE <<>>)]

\* One pass of the loop of detectZipBomb over n members equal to `entry`.
detectStep(acc, entry, n) == accumulate(acc, entry, n, validateEntry(entry).severity)

RECURSIVE detectLoop(_, _)
detectLoop(acc, es) ==
    IF es = <<>> THEN acc ELSE detectLoop(detectStep(acc, Head(es), 1), Tail(es))

\* The members that follow the listed ones in a large archive: empty, stored
\* files with plain names that are no media files.
PadEntry == [entryName |-> <<"p", "a", "d">>, size |-> 0, compressedSize |-> 0]

\* Mutant of archiveBlockedCount: the total extracted size is not checked.
archiveBlockedCountNoSize(acc, totalFiles) ==
    acc.blockedFileCount
    + (IF totalFiles > MAX_FILE_COUNT THEN 1 ELSE 0)
    + (IF ratioExceeds(acc.totalUncompressedSize, acc.totalCompressedSize,
                       MAX_COMPRESSION_RATIO) THEN 1 ELSE 0)

\* Mutant of archiveBlockedCount: a depth over the limit blocks the archive.
archiveBlockedCountDepth(acc, totalFiles) ==
    acc.blockedFileCount
    + (IF totalFiles > MAX_FILE_COUNT THEN 1 ELSE 0)
    + (IF ratioExceeds(acc.totalUncompressedSize, acc.totalCompressedSize,
                       MAX_COMPRESSION_RATIO) THEN 1 ELSE 0)
    + (IF acc.totalUncompressedSize > MAX_TOTAL_EXTRACTED_SIZE THEN 1 ELSE 0)
    + (IF acc.maxDepth > MAX_NESTED_DEPTH THEN 1 ELSE 0)

\* The whole-archive checks of detectZipBomb, after the loop.
archiveBlockedCount(acc, totalFiles) ==
    acc.blockedFileCount
    + (IF totalFiles > MAX_FILE_COUNT THEN 1 ELSE 0)
    + (IF ratioExceeds(acc.totalUncompressedSize, acc.totalCompressedSize,
                       MAX_COMPRESSION_RATIO) THEN 1 ELSE 0)
    + (IF acc.totalUncompressedSize > MAX_TOTAL_EXTRACTED_SIZE THEN 1 ELSE 0)

\* Mutant of detectReport: a depth over the limit adds no reason.
detectReportNoDepthReason(acc, totalFiles) ==
    LET countOver == totalFiles > MAX_FILE_COUNT
        ratioOver == ratioExceeds(acc.totalUncompressedSize, acc.totalCompressedSize,
                                  MAX_COMPRESSION_RATIO)
        sizeOver == acc.totalUncompressedSize > MAX_TOTAL_EXTRACTED_SIZE
        depthOver == acc.maxDepth > MAX_NESTED_DEPTH
    IN  [isSuspicious |->
             \/ acc.suspiciousFileCount + (IF depthOver THEN 1 ELSE 0) > 0
             \/ ratioExceeds(acc.totalUncompressedSize, acc.totalCompressedSize,
                             SUSPICIOUS_RATIO_THRESHOLD),
         isBlocked |-> archiveBlockedCount(acc, totalFiles) > 0,
         reasons |-> acc.reasons
                     \o (IF countOver THEN <<"file-count">> ELSE <<>>)
                     \o (IF ratioOver THEN <<"average-ratio">> ELSE <<>>)
                     \o (IF sizeOver THEN <<"total-size">> ELSE <<>>),
         statistics |-> [totalFiles |-> totalFiles,
                         totalCompressedSize |-> acc.totalCompressedSize,
                         totalUncompressedSize |-> acc.totalUncompressedSize,
                         averageRatio |-> averageRatio(acc.totalUncompressedSize,
                                                       acc.totalCompressedSize),
                         maxDepth |-> acc.maxDepth]]

\* detectZipBomb after its loop: the checks of the whole archive and the result.
detectReport(acc, totalFiles) ==
    LET countOver == totalFiles > MAX_FILE_COUNT
        ratioOver == ratioExceeds(acc.totalUncompressedSize, acc.totalCompressedSize,
                                  MAX_COMPRESSION_RATIO)
        sizeOver == acc.totalUncompressedSize > MAX_TOTAL_EXTRACTED_SIZE
        depthOver == acc.maxDepth > MAX_NESTED_DEPTH
    IN  [isSuspicious |->
             \/ acc.suspiciousFileCount + (IF depthOver THEN 1 ELSE 0) > 0
             \/ ratioExceeds(acc.totalUncompressedSize, acc.totalCompressedSize,
                             SUSPICIOUS_RATIO_THRESHOLD),
         isBlocked |-> archiveBlockedCount(acc, totalFiles) > 0,
         reasons |-> acc.reasons
                     \o (IF countOver THEN <<"file-count">> ELSE <<>>)
                     \o (IF ratioOver THEN <<"average-ratio">> ELSE <<>>)
                     \o (IF sizeOver THEN <<"total-size">> ELSE <<>>)
                     \o (IF depthOver THEN <<"depth">> ELSE <<>>),
         statistics |-> [totalFiles |-> totalFiles,
                         totalCompressedSize |-> acc.totalCompressedSize,
                         totalUncompressedSize |-> acc.totalUncompressedSize,
                         averageRatio |-> averageRatio(acc.totalUncompressedSize,
                                                       acc.totalCompressedSize),
                         maxDepth |-> acc.maxDepth]]

NoTotals ==
    [totalCompressedSize |-> 0, totalUncompressedSize |-> 0, maxDepth |-> 0,
     suspiciousFileCount |-> 0, blockedFileCount |-> 0, reasons |-> <<>>]

\* detectZipBomb of the archive made of the members es followed by pad members
\* equal to PadEntry.
detectZipBomb(es, pad) ==
    detectReport(detectStep(detectLoop(NoTotals, es), PadEntry, pad), Len(es) + pad)

(***************************************************************************)
(* ZipHandler                                                              *)
(***************************************************************************)

SUPPORTED_IMAGE_EXTS ==
    {<<"j", "p", "g">>, <<"j", "p", "e", "g">>, <<"p", "n", "g">>, <<"g", "i", "f">>,
     <<"w", "e", "b", "p">>, <<"b", "m", "p">>, <<"s", "v", "g">>}

SUPPORTED_VIDEO_EXTS ==
    {<<"m", "p", "4">>, <<"a", "v", "i">>, <<"m", "k", "v">>, <<"m", "o", "v">>,
     <<"w", "m", "v">>, <<"f", "l", "v">>, <<"w", "e", "b", "m">>}

\* isMediaFile: "image", "video" or "null"
isMediaFile(filename) ==
    LET dotted == toLowerCase(extname(filename))
        ext == SubSeq(dotted, 2, Len(dotted))
    IN  IF ext \in SUPPORTED_IMAGE_EXTS THEN "image"
        ELSE IF ext \in SUPPORTED_VIDEO_EXTS THEN "video"
        ELSE "null"

\* adm-zip: an entry is a directory when its name ends with a separator.
isDirectory(entry) ==
    Len(entry.entryName) > 0 /\ entry.entryName[Len(entry.entryName)] = "/"

\* The archive every operation of the model works on.
ZipPath == <<"/", "d", "/", "z", ".", "z", "i", "p">>

NoMapping == [k \in {} |-> <<>>]

\* map.set(key, value)
mapSet(map, key, value) ==
    [k \in DOMAIN map \cup {key} |-> IF k = key THEN value ELSE map[k]]

\* entry.header.time.getTime(): the milliseconds of a time of the ZIP header,
\* which is kept in steps of two seconds.
getTime(time) == time * 2000

\* The descriptor filterMediaFiles builds for a media entry.
zipFileInfo(entry, zipPath, meaningfulPath, normalizedPath) ==
    [path |-> <<"[", "Z", "I", "P", "]">> \o basename(zipPath, <<>>)
              \o <<"/">> \o meaningfulPath,
     name |-> basename(meaningfulPath, <<>>),
     type |-> isMediaFile(entry.entryName),
     size |-> entry.size,
     modified |-> getTime(entry.time),
     zipPath |-> zipPath,
     internalPath |-> meaningfulPath,
     encodedPath |-> normalizedPath,
     depth |-> depthOf(meaningfulPath),
     originalEntryName |-> entry.entryName]

\* this.pathMappingCache.get(zipPath), an empty map when there is none
zipMappingOf(cache, zipPath) == IF zipPath \in DOMAIN cache THEN cache[zipPath] ELSE NoMapping

\* The end of a pass of the loop of filterMediaFiles for a media entry: the
\* mapping is recorded and the descriptor is added.
addMediaFile(acc, entry, zipPath, meaningfulPath) ==
    [files |-> Append(acc.files,
                      zipFileInfo(entry, zipPath, meaningfulPath,
                                  sanitizeFileName(meaningfulPath))),
     cache |-> mapSet(acc.cache, zipPath,
                      mapSet(zipMappingOf(acc.cache, zipPath), meaningfulPath,
                             entry.entryName))]

\* One pass of the loop of filterMediaFiles: acc = [files, cache].
filterStep(acc, entry, zipPath, options) ==
    IF isDirectory(entry) THEN acc
    ELSE IF isMediaFile(entry.entryName) = "null" THEN acc
    ELSE IF options.maxFileSize # 0 /\ entry.size > options.maxFileSize THEN acc
    ELSE addMediaFile(acc, entry, zipPath, generateMeaningfulFileName(entry.entryName))

RECURSIVE filterLoop(_, _, _, _)
filterLoop(acc, es, zipPath, options) ==
    IF es = <<>> THEN acc
    ELSE filterLoop(filterStep(acc, Head(es), zipPath, options), Tail(es), zipPath, options)

\* filterMediaFiles over the members es and the pad members, which are no media
\* files and so take the second `continue`: [files, cache].
filterMediaFiles(cache, es, zipPath, options) ==
    filterLoop([files |-> <<>>, cache |-> cache], es, zipPath, options)

NoStatistics ==
    [totalFiles |-> 0, totalCompressedSize |-> 0, totalUncompressedSize |-> 0,
     averageRatio |-> averageRatio(0, 0), maxDepth |-> 0]

\* An outcome of listMediaFiles: a returned list (kind "ok") or a thrown error;
\* typed says whether the error is a ZipError (it has a `type`).
ListOutcome(kind, typed, files, reasons, statistics, cache) ==
    [kind |-> kind, typed |-> typed, files |-> files, reasons |-> reasons,
     statistics |-> statistics, cache |-> cache]

\* The comparator of sortFiles, for sortBy "date" and "size"; any other sortBy
\* of the model compares equal.
comparison(a, b, sortBy, sortOrder) ==
    LET c == IF sortBy = "date" THEN a.modified - b.modified
             ELSE IF sortBy = "size" THEN a.size - b.size
             ELSE 0
    IN  IF sortOrder = "desc" THEN 0 - c ELSE c

\* Mutant of insertSorted: x is put before the elements it compares equal to.
insertSortedBeforeEqual(sorted, x, sortBy, sortOrder) ==
    LET after == {k \in 1..Len(sorted) : comparison(sorted[k], x, sortBy, sortOrder) >= 0}
        at == IF after = {} THEN Len(sorted) + 1
              ELSE CHOOSE k \in after : \A j \in after : k <= j
    IN  SubSeq(sorted, 1, at - 1) \o <<x>> \o SubSeq(sorted, at, Len(sorted))

\* x put into a sorted list behind every element that does not compare greater.
insertSorted(sorted, x, sortBy, sortOrder) ==
    LET after == {k \in 1..Len(sorted) : comparison(sorted[k], x, sortBy, sortOrder) > 0}
        at == IF after = {} THEN Len(sorted) + 1
              ELSE CHOOSE k \in after : \A j \in after : k <= j
    IN  SubSeq(sorted, 1, at - 1) \o <<x>> \o SubSeq(sorted, at, Len(sorted))

RECURSIVE sortInto(_, _, _, _)
sortInto(sorted, files, sortBy, sortOrder) ==
    IF files = <<>> THEN sorted
    ELSE sortInto(insertSorted(sorted, Head(files), sortBy, sortOrder), Tail(files),
                  sortBy, sortOrder)

\* files.sort(comparator): Array.prototype.sort is stable.
sortFiles(files, sortBy, sortOrder) == sortInto(<<>>, files, sortBy, sortOrder)

\* if (options?.sortBy) this.sortFiles(mediaFiles, options.sortBy, options.sortOrder || 'asc')
sortListing(files, options) ==
    IF options.sortBy # "none" THEN sortFiles(files, options.sortBy, options.sortOrder)
    ELSE files

\* listMediaFiles after detectZipBomb; mediaFiles is what filterMediaFiles
\* gives, which is called when the archive is not blocked.
listChecked(securityCheck, mediaFiles, cache, options) ==
    IF securityCheck.isBlocked
    THEN ListOutcome("ZIP_BOMB_DETECTED", TRUE, <<>>, securityCheck.reasons,
                     securityCheck.statistics, cache)
    ELSE ListOutcome("ok", TRUE, sortListing(mediaFiles.files, options), <<>>,
                     NoStatistics, mediaFiles.cache)

\* The try block of listMediaFiles.
listMediaFilesTry(cache, file, es, pad, zipPath, options) ==
    IF file = "missing"
    THEN ListOutcome("CORRUPTED_ARCHIVE", TRUE, <<>>, <<>>, NoStatistics, cache)
    ELSE IF file = "unparsable"
    THEN ListOutcome("Error", FALSE, <<>>, <<>>, NoStatistics, cache)
    ELSE IF Len(es) + pad = 0
    THEN ListOutcome("ok", TRUE, <<>>, <<>>, NoStatistics, cache)
    ELSE listChecked(detectZipBomb(es, pad),
                     filterMediaFiles(cache, es, zipPath, options), cache, options)

\* Mutant of rethrowZipError: every error is thrown on as CORRUPTED_ARCHIVE.
rethrowAsCorrupted(outcome) ==
    IF outcome.kind = "ok" THEN outcome
    ELSE [outcome EXCEPT !.kind = "CORRUPTED_ARCHIVE", !.typed = TRUE]

\* The catch block of listMediaFiles and of extractFile: a ZipError is thrown on
\* as it is, any other error becomes CORRUPTED_ARCHIVE.
rethrowZipError(outcome) ==
    IF outcome.kind = "ok" \/ outcome.typed THEN outcome
    ELSE [outcome EXCEPT !.kind = "CORRUPTED_ARCHIVE", !.typed = TRUE]

listMediaFiles(cache, file, es, pad, zipPath, options) ==
    rethrowZipError(listMediaFilesTry(cache, file, es, pad, zipPath, options))

\* The i-th entry of zip.getEntries(): the listed members, then the pad members.
EntryAt(es, i) == IF i <= Len(es) THEN es[i] ELSE PadEntry

\* zip.getEntry(name): the index of the entry of that name, 0 when there is none.
getEntry(es, pad, name) ==
    LET hits == {i \in 1..Len(es) : es[i].entryName = name}
    IN  IF hits # {} THEN CHOOSE i \in hits : \A j \in hits : j <= i
        ELSE IF pad > 0 /\ name = PadEntry.entryName THEN Len(es) + 1
        ELSE 0

\* The second lookup of extractFile: through the mapping cache.
lookupMapping(cache, es, pad, zipPath, internalPath) ==
    IF zipPath \in DOMAIN cache /\ internalPath \in DOMAIN cache[zipPath]
    THEN getEntry(es, pad, cache[zipPath][internalPath])
    ELSE 0

\* The third lookup of extractFile: the first entry whose decoded name is the
\* requested path.
lookupFallback(es, pad, internalPath) ==
    LET all == 1..(Len(es) + (IF pad > 0 THEN 1 ELSE 0))
        hits == {i \in all : decodeZipFileName(EntryAt(es, i).entryName) = internalPath}
    IN  IF hits = {} THEN 0 ELSE CHOOSE i \in hits : \A j \in hits : i <= j

\* entry = a; if (!entry) entry = b; if (!entry) entry = c
firstFound(a, b, c) == IF a # 0 THEN a ELSE IF b # 0 THEN b ELSE c

\* The entry extractFile resolves internalPath to (0: none).
resolveEntry(cache, es, pad, zipPath, internalPath) ==
    firstFound(getEntry(es, pad, internalPath),
               lookupMapping(cache, es, pad, zipPath, internalPath),
               lookupFallback(es, pad, internalPath))

\* An outcome of extractFile: the returned buffer (kind "ok": the content of
\* member `entry`) or a thrown error.
ExtractOutcome(kind, typed, entry) == [kind |-> kind, typed |-> typed, entry |-> entry]

\* Mutant of extractResolved: the entry is validated before its size is checked.
extractResolvedValidateFirst(file, es, entry) ==
    IF entry = 0 THEN ExtractOutcome("CORRUPTED_ARCHIVE", TRUE, 0)
    ELSE IF ~validateEntry(EntryAt(es, entry)).valid
    THEN ExtractOutcome("ZIP_BOMB_DETECTED", TRUE, entry)
    ELSE IF EntryAt(es, entry).size > MAX_FILE_SIZE
    THEN ExtractOutcome("FILE_TOO_LARGE", TRUE, entry)
    ELSE IF file = "unreadable" THEN ExtractOutcome("CORRUPTED_ARCHIVE", TRUE, entry)
    ELSE ExtractOutcome("ok", TRUE, entry)

\* extractFile after the lookups; zip.readFile gives no buffer for a member of
\* an archive whose data cannot be read.
extractResolved(file, es, entry) ==
    IF entry = 0 THEN ExtractOutcome("CORRUPTED_ARCHIVE", TRUE, 0)
    ELSE IF EntryAt(es, entry).size > MAX_FILE_SIZE
    THEN ExtractOutcome("FILE_TOO_LARGE", TRUE, entry)
    ELSE IF ~validateEntry(EntryAt(es, entry)).valid
    THEN ExtractOutcome("ZIP_BOMB_DETECTED", TRUE, entry)
    ELSE IF file = "unreadable" THEN ExtractOutcome("CORRUPTED_ARCHIVE", TRUE, entry)
    ELSE ExtractOutcome("ok", TRUE, entry)

\* The try block of extractFile; new AdmZip(zipPath) throws for a file that is
\* missing or is no archive.
extractFileTry(cache, file, es, pad, zipPath, internalPath) ==
    IF file \in {"missing", "unparsable"} THEN ExtractOutcome("Error", FALSE, 0)
    ELSE extractResolved(file, es, resolveEntry(cache, es, pad, zipPath, internalPath))

extractFile(cache, file, es, pad, zipPath, internalPath) ==
    rethrowZipError(extractFileTry(cache, file, es, pad, zipPath, internalPath))

NoInfo ==
    [kind |-> "none", fileCount |-> 0, mediaFileCount |-> 0, hasNestedFolders |-> FALSE,
     suspiciousFiles |-> 0]

\* validateZip: the summary of the archive (kind "ok") or CORRUPTED_ARCHIVE.
validateZip(file, es, pad) ==
    IF file \in {"missing", "unparsable"} THEN [NoInfo EXCEPT !.kind = "CORRUPTED_ARCHIVE"]
    ELSE [kind |-> "ok",
          fileCount |-> Len(es) + pad,
          mediaFileCount |->
              Cardinality({i \in 1..Len(es) : isMediaFile(es[i].entryName) # "null"}),
          hasNestedFolders |-> \E i \in 1..Len(es) : depthOf(es[i].entryName) > 1,
          suspiciousFiles |-> IF detectZipBomb(es, pad).isSuspicious THEN 1 ELSE 0]

(***************************************************************************)
(* TempFileManager, as the zip:extractFile handler uses it                 *)
(***************************************************************************)

\* 200 * 1024 * 1024
MAX_TEMP_SIZE == 209715200

RECURSIVE totalSize(_)
totalSize(files) == IF files = <<>> THEN 0 ELSE Head(files).size + totalSize(Tail(files))

RECURSIVE evictUntil(_, _, _)
\* The loop of ensureDiskSpace over the records, least recently accessed first:
\* each is deleted until the freed size reaches the target.
evictUntil(files, freedSize, targetFreeSize) ==
    IF files = <<>> THEN <<>>
    ELSE IF freedSize + Head(files).size >= targetFreeSize THEN Tail(files)
    ELSE evictUntil(Tail(files), freedSize + Head(files).size, targetFreeSize)

\* ensureDiskSpace(requiredSize): the records it leaves.
ensureDiskSpace(files, requiredSize) ==
    LET projectedSize == totalSize(files) + requiredSize
    IN  IF projectedSize > MAX_TEMP_SIZE
        THEN evictUntil(files, 0, projectedSize - MAX_TEMP_SIZE + MAX_TEMP_SIZE \div 10)
        ELSE files

\* saveTempFile followed by updateAccess of the new file: the records afterwards.
saveTempFile(files, id, size, originalPath, zipSource, content) ==
    Append(ensureDiskSpace(files, size),
           [path |-> [id |-> id, ext |-> extname(originalPath)],
            size |-> size, zipSource |-> zipSource, content |-> content])

(***************************************************************************)
(* State that an operation leaves alone                                    *)
(***************************************************************************)

EmptyCache == [z \in {} |-> NoMapping]

\* options = {}: maxFileSize is undefined, which the model writes as 0 with
\* maxFileSizeGiven FALSE; sortBy is undefined, written "none".
NoOptions ==
    [maxFileSizeGiven |-> FALSE, maxFileSize |-> 0, sortBy |-> "none", sortOrder |-> "asc"]

NoListing ==
    [op |-> "none", options |-> NoOptions, kind |-> "none", files |-> <<>>,
     reasons |-> <<>>, statistics |-> NoStatistics, info |-> NoInfo]

NoExtraction ==
    [op |-> "none", internalPath |-> <<>>, kind |-> "none", entry |-> 0,
     cold |-> FALSE, descriptors |-> {}, tempFile |-> 0]

NoDetection == [called |-> FALSE]

NoValidation == [called |-> FALSE]

SanitizerIdle == fileName = <<>> /\ sanitized = <<>>

ArchiveIdle ==
    /\ entries = <<>>
    /\ padCount = 0
    /\ archiveFile = "ok"

\* new Map<string, string>()
NoTempFileCache == [key \in {} |-> <<>>]

\* The null of currentFile, and the null of currentFolder.
NoFile == [path |-> 0, modified |-> 0]
NoFolder == "null"

\* The state hooks of App as useState initializes them, and no rescan in
\* flight.
useState ==
    [currentFile |-> NoFile, files |-> <<>>, currentIndex |-> 0,
     currentFolder |-> NoFolder, viewMode |-> "single",
     bindingDirection |-> "right-to-left", rescans |-> <<>>]

ReaderIdle ==
    /\ pathMappingCache = EmptyCache
    /\ listing = NoListing
    /\ extraction = NoExtraction
    /\ tempFiles = <<>>
    /\ nextTempId = 1
    /\ tempFileCache = NoTempFileCache
    /\ App = useState

DetectorIdle == detection = NoDetection /\ validation = NoValidation

\* cleanupTimer: set tells that the field holds an interval, running is the
\* number of intervals that were set and not cleared.
NoTimer == [set |-> FALSE, running |-> 0]

\* The temp file manager before its first call, with an empty directory.
ManagerIdle ==
    /\ tempDir = <<>>
    /\ tasks = <<>>
    /\ now = 0
    /\ initialized = FALSE
    /\ cleanupTimer = NoTimer

(***************************************************************************)
(* The sanitizer, applied to file names built from a few pieces            *)
(***************************************************************************)

\* How many pieces a file name is built from.
MaxTokens == 3

Filler(n) == [i \in 1..n |-> "x"]

\* The pieces: traversal, separators, white space, a drive letter, reserved
\* device names, an extension, a forbidden character, and two long runs that
\* bring a name to the length limit.
Tokens ==
    {<<".", ".">>, <<"/">>, <<" ">>, <<"C", ":">>, <<"C", "O", "N">>,
     <<"l", "p", "t", "1">>, <<".">>, <<"a">>, <<".", "j", "p", "g">>, <<"?">>,
     Filler(MAX_FILENAME_LENGTH - 4), Filler(MAX_FILENAME_LENGTH)}

RECURSIVE NamesOf(_)
NamesOf(n) ==
    IF n = 0 THEN {<<>>}
    ELSE NamesOf(n - 1) \cup {x \o t : x \in NamesOf(n - 1), t \in Tokens}

InitSanitize ==
    /\ fileName \in NamesOf(MaxTokens)
    /\ sanitized = <<>>
    /\ ArchiveIdle
    /\ ReaderIdle
    /\ DetectorIdle
    /\ ManagerIdle

\* A call of FileNameHandler.sanitizeFileName(fileName).
SanitizeFileName ==
    /\ sanitized = <<>>
    /\ sanitized' = <<sanitizeFileName(fileName)>>
    /\ UNCHANGED managerVars
    /\ UNCHANGED <<fileName, entries, padCount, archiveFile, pathMappingCache, listing,
                   extraction, tempFiles, nextTempId, detection, validation>>
    /\ UNCHANGED <<tempFileCache, App>>

\* A call of FileNameHandler.sanitizeFileName on the result of the first call.
SanitizeAgain ==
    /\ Len(sanitized) = 1
    /\ sanitized' = Append(sanitized, sanitizeFileName(sanitized[1]))
    /\ UNCHANGED managerVars
    /\ UNCHANGED <<fileName, entries, padCount, archiveFile, pathMappingCache, listing,
                   extraction, tempFiles, nextTempId, detection, validation>>
    /\ UNCHANGED <<tempFileCache, App>>

NextSanitize == SanitizeFileName \/ SanitizeAgain

SpecSanitize == InitSanitize /\ [][NextSanitize]_vars

(***************************************************************************)
(* The detector, applied to archives of a few members                      *)
(***************************************************************************)

\* How many members of an archive are listed one by one.
MaxEntries == 3

\* <<size, compressedSize>>: a stored member, ratios of 200, 50 and exactly 100
\* (the last of exactly 500 MiB), one byte more than 500 MiB, a member whose
\* compressed size is recorded as 0, and a ratio of 1000.
EntrySizes ==
    {<<10240, 10240>>, <<204800, 1024>>, <<51200, 1024>>, <<524288000, 5242880>>,
     <<524288001, 524288001>>, <<10240, 0>>, <<1024000, 1024>>}

PlainName == <<"a", ".", "j", "p", "g">>

TraversalName == <<".", ".", "/", "x", ".", "p", "n", "g">>

\* A name of 256 characters, one more than the name-length check allows.
LongName == Filler(MAX_FILENAME_LENGTH - 3) \o <<".", "j", "p", "g">>

\* A name eleven directories deep, one more than MAX_NESTED_DEPTH.
DeepName == [i \in 1..(2 * MAX_NESTED_DEPTH + 2) |-> IF i % 2 = 1 THEN "d" ELSE "/"] \o PlainName

DetectNames == {PlainName, TraversalName}

\* The long name stored and over the size limit, the deep name stored, and a
\* member over the size limit whose compressed size is recorded as 0; they
\* occur in archives of fewer members.
LongAndDeepEntries ==
    {[entryName |-> LongName, size |-> 10240, compressedSize |-> 10240],
     [entryName |-> LongName, size |-> 524288001, compressedSize |-> 524288001],
     [entryName |-> DeepName, size |-> 10240, compressedSize |-> 10240],
     [entryName |-> PlainName, size |-> 524288001, compressedSize |-> 0]}

EntriesOf(names, sizes) ==
    {[entryName |-> n, size |-> z[1], compressedSize |-> z[2]] : n \in names, z \in sizes}

RECURSIVE SeqsUpTo(_, _)
SeqsUpTo(S, n) ==
    IF n = 0 THEN {<<>>}
    ELSE SeqsUpTo(S, n - 1) \cup {Append(q, x) : q \in SeqsUpTo(S, n - 1), x \in S}

\* An archive either has the listed members only, or so many more that one
\* listed member leaves it at MAX_FILE_COUNT and two bring it over.
PadCounts == {0, MAX_FILE_COUNT - 1}

InitDetect ==
    /\ entries \in SeqsUpTo(EntriesOf(DetectNames, EntrySizes), MaxEntries)
                     \cup SeqsUpTo(LongAndDeepEntries \cup EntriesOf({PlainName}, EntrySizes),
                                   MaxEntries - 1)
    /\ padCount \in PadCounts
    /\ archiveFile = "ok"
    /\ SanitizerIdle
    /\ ReaderIdle
    /\ DetectorIdle
    /\ ManagerIdle

\* A call of ZipBombDetector.detectZipBomb on the entries of the archive.
DetectZipBomb ==
    /\ detection' = [called |-> TRUE, result |-> detectZipBomb(entries, padCount)]
    /\ UNCHANGED managerVars
    /\ UNCHANGED <<fileName, sanitized, entries, padCount, archiveFile, pathMappingCache,
                   listing, extraction, tempFiles, nextTempId, validation>>
    /\ UNCHANGED <<tempFileCache, App>>

\* A call of ZipBombDetector.validateEntry on the i-th entry.
ValidateEntry(i) ==
    /\ validation' = [called |-> TRUE, entry |-> i, result |-> validateEntry(entries[i])]
    /\ UNCHANGED managerVars
    /\ UNCHANGED <<fileName, sanitized, entries, padCount, archiveFile, pathMappingCache,
                   listing, extraction, tempFiles, nextTempId, detection>>
    /\ UNCHANGED <<tempFileCache, App>>

NextDetect ==
    \/ DetectZipBomb
    \/ \E i \in 1..Len(entries) : ValidateEntry(i)

SpecDetect == InitDetect /\ [][NextDetect]_vars

(***************************************************************************)
(* The reader and its IPC handlers, applied to archives of a few members   *)
(***************************************************************************)

\* How many members of an archive the reader lists one by one.
MaxMembers == 2

\* How many temp files the zip:extractFile handler saves in a behaviour.
MaxSaves == 1

\* A member with the time of its header, in steps of two seconds from the
\* start of a day.
MemberAt(name, size, compressedSize, time) ==
    [entryName |-> name, size |-> size, compressedSize |-> compressedSize, time |-> time]

\* A member written at noon.
Member(name, size, compressedSize) == MemberAt(name, size, compressedSize, 21600)

\* Two members that differ in their directory only, a member that has the name
\* the reader generates for them, a member with a garbled name and an extension
\* in capitals, a text file, and a directory whose name ends like an image;
\* stored, or compressed 50 times, or 200 times, or larger than 500 MiB.
ReaderMembers ==
    {Member(<<"a", "/", "1", ".", "j", "p", "g">>, 10240, 10240),
     Member(<<"a", "/", "1", ".", "j", "p", "g">>, 204800, 1024),
     Member(<<"b", "/", "1", ".", "j", "p", "g">>, 51200, 1024),
     Member(<<"b", "/", "1", ".", "j", "p", "g">>, 524288001, 524288001),
     Member(<<"p", "a", "g", "e", "_", "0", "0", "1", ".", "j", "p", "g">>, 10240, 10240),
     Member(<<"<UFFFD>", "2", ".", "P", "N", "G">>, 10240, 10240),
     Member(<<"n", ".", "t", "x", "t">>, 10240, 10240),
     Member(<<"d", ".", "j", "p", "g", "/">>, 0, 0)}

DistinctNames(es) ==
    \A i, j \in 1..Len(es) : es[i].entryName = es[j].entryName => i = j

\* The members of the archives whose members are extracted: those with a plain
\* name that is not a directory.
ExtractMembers ==
    {m \in ReaderMembers :
        ~hasGarbledCharacters(m.entryName) /\ ~isDirectory(m)}

\* The options of a listing that is followed by extractions: none, a size
\* limit.
ScanOptions ==
    {NoOptions,
     [NoOptions EXCEPT !.maxFileSizeGiven = TRUE, !.maxFileSize = 20480]}

\* The options of a listing: none, a size limit, a size limit of 0, a sort by
\* size or by date, ascending or descending.
ListOptions ==
    {NoOptions,
     [NoOptions EXCEPT !.maxFileSizeGiven = TRUE, !.maxFileSize = 20480],
     [NoOptions EXCEPT !.maxFileSizeGiven = TRUE],
     [NoOptions EXCEPT !.sortBy = "size", !.sortOrder = "desc"],
     [NoOptions EXCEPT !.sortBy = "size"],
     [NoOptions EXCEPT !.sortBy = "date", !.sortOrder = "desc"],
     [NoOptions EXCEPT !.sortBy = "date"]}

\* An archive file on disk: one that opens, one that is not there, one that is
\* not a ZIP file, one whose members cannot be read.
ArchiveOf(members) ==
    /\ archiveFile \in {"ok", "missing", "unparsable", "unreadable"}
    /\ entries \in {es \in SeqsUpTo(members, MaxMembers) :
                        /\ DistinctNames(es)
                        /\ archiveFile \in {"missing", "unparsable"} => es = <<>>
                        /\ archiveFile = "unreadable" => Len(es) = 1}
    /\ padCount \in {n \in PadCounts : archiveFile # "ok" => n = 0}

Init ==
    /\ ArchiveOf(ExtractMembers)
    /\ SanitizerIdle
    /\ ReaderIdle
    /\ DetectorIdle
    /\ ManagerIdle

\* The listing a call leaves for its caller, and the mapping cache after it.
ListDone(op, options, outcome, info) ==
    /\ listing' = [op |-> op, options |-> options, kind |-> outcome.kind,
                   files |-> outcome.files, reasons |-> outcome.reasons,
                   statistics |-> outcome.statistics, info |-> info]
    /\ pathMappingCache' = outcome.cache
    /\ UNCHANGED managerVars
    /\ UNCHANGED <<fileName, sanitized, entries, padCount, archiveFile, extraction,
                   tempFiles, nextTempId, detection, validation>>
    /\ UNCHANGED <<tempFileCache, App>>

\* A call of ZipHandler.listMediaFiles(zipPath, options).
ListMediaFiles(options) ==
    ListDone("listMediaFiles", options,
             listMediaFiles(pathMappingCache, archiveFile, entries, padCount, ZipPath,
                            options),
             NoInfo)

\* The zip:scan handler after listMediaFiles: validateZip follows a listing that
\* returned, and an error of either is thrown on.
ScanDone(options, outcome, info) ==
    IF outcome.kind # "ok" THEN ListDone("zip:scan", options, outcome, NoInfo)
    ELSE IF info.kind # "ok"
    THEN ListDone("zip:scan", options,
                  [outcome EXCEPT !.kind = info.kind, !.files = <<>>], NoInfo)
    ELSE ListDone("zip:scan", options, outcome, info)

\* The zip:scan handler.
ZipScan(options) ==
    ScanDone(options,
             listMediaFiles(pathMappingCache, archiveFile, entries, padCount, ZipPath,
                            options),
             validateZip(archiveFile, entries, padCount))

\* The internal paths a caller asks for: those of the descriptors it holds, and
\* the raw names of the members.
RequestedPaths ==
    {listing.files[i].internalPath : i \in 1..Len(listing.files)}
    \cup {entries[i].entryName : i \in 1..Len(entries)}

\* The members the descriptors of the caller name for an internal path.
DescriptorsOf(internalPath) ==
    {listing.files[i].originalEntryName :
        i \in {k \in 1..Len(listing.files) : listing.files[k].internalPath = internalPath}}

\* What a call of extractFile leaves for its caller; tempFile is the file the
\* handler saved (0: none).
ExtractionOf(op, internalPath, outcome, tempFile) ==
    [op |-> op, internalPath |-> internalPath, kind |-> outcome.kind,
     entry |-> outcome.entry, cold |-> ZipPath \notin DOMAIN pathMappingCache,
     descriptors |-> DescriptorsOf(internalPath), tempFile |-> tempFile]

\* A call of ZipHandler.extractFile(zipPath, internalPath).
ExtractFile(internalPath) ==
    /\ extraction' =
           ExtractionOf("extractFile", internalPath,
                        extractFile(pathMappingCache, archiveFile, entries, padCount,
                                    ZipPath, internalPath), 0)
    /\ UNCHANGED managerVars
    /\ UNCHANGED <<fileName, sanitized, entries, padCount, archiveFile, pathMappingCache,
                   listing, tempFiles, nextTempId, detection, validation>>
    /\ UNCHANGED <<tempFileCache, App>>

\* The zip:extractFile handler after extractFile: the buffer is saved as a temp
\* file, an error is thrown on.
ExtractSaved(internalPath, outcome) ==
    /\ IF outcome.kind = "ok"
       THEN /\ tempFiles' = saveTempFile(tempFiles, nextTempId,
                                         EntryAt(entries, outcome.entry).size,
                                         internalPath, ZipPath, outcome.entry)
            /\ nextTempId' = nextTempId + 1
            /\ extraction' = ExtractionOf("zip:extractFile", internalPath, outcome,
                                          nextTempId)
       ELSE /\ extraction' = ExtractionOf("zip:extractFile", internalPath, outcome, 0)
            /\ UNCHANGED <<tempFiles, nextTempId>>
    /\ UNCHANGED managerVars
    /\ UNCHANGED <<fileName, sanitized, entries, padCount, archiveFile, pathMappingCache,
                   listing, detection, validation>>
    /\ UNCHANGED <<tempFileCache, App>>

\* The zip:extractFile handler.
ZipExtractFile(internalPath) ==
    /\ nextTempId <= MaxSaves
    /\ ExtractSaved(internalPath,
                    extractFile(pathMappingCache, archiveFile, entries, padCount, ZipPath,
                                internalPath))

\* discoverExistingTempFiles: a file is adopted, with source 'unknown', when its
\* name has a '.', which it has when the saved path had an extension.
adoptTempFiles(files) ==
    [i \in 1..Len(SelectSeq(files, LAMBDA f : f.path.ext # <<>>)) |->
        [SelectSeq(files, LAMBDA f : f.path.ext # <<>>)[i]
            EXCEPT !.zipSource = <<"u", "n", "k", "n", "o", "w", "n">>]]

\* The process ends and starts again: the static mapping cache is new and
\* empty, the temp files are found again; the caller keeps its descriptors.
Restart ==
    /\ pathMappingCache # EmptyCache
    /\ pathMappingCache' = EmptyCache
    /\ tempFiles' = adoptTempFiles(tempFiles)
    /\ UNCHANGED managerVars
    /\ UNCHANGED <<fileName, sanitized, entries, padCount, archiveFile, listing,
                   extraction, nextTempId, detection, validation>>
    /\ UNCHANGED <<tempFileCache, App>>

Next ==
    \/ \E options \in ScanOptions : ListMediaFiles(options)
    \/ \E options \in ScanOptions : ZipScan(options)
    \/ \E internalPath \in RequestedPaths : ExtractFile(internalPath)
    \/ \E internalPath \in RequestedPaths : ZipExtractFile(internalPath)
    \/ Restart

Spec == Init /\ [][Next]_vars

\* The members of the archives that are listed only: two more, one whose
\* extension is on the reader's list of image extensions, and one eleven
\* directories deep.
ListMembers ==
    ReaderMembers \cup {Member(<<"c", ".", "s", "v", "g">>, 10240, 10240),
                        Member(DeepName, 10240, 10240)}

\* The members of the archives of three: two of one time, one earlier and one
\* later; three of one size and one larger.
SortMembers ==
    {MemberAt(<<"a", "/", "1", ".", "j", "p", "g">>, 10240, 10240, 21600),
     MemberAt(<<"b", "/", "1", ".", "j", "p", "g">>, 51200, 1024, 21600),
     MemberAt(<<"c", ".", "s", "v", "g">>, 10240, 10240, 10800),
     MemberAt(<<"p", "a", "g", "e", "_", "0", "0", "1", ".", "j", "p", "g">>,
              10240, 10240, 32400)}

\* An archive that opens, of three of these members.
ArchiveOfThree(members) ==
    /\ archiveFile = "ok"
    /\ entries \in {es \in SeqsUpTo(members, 3) : Len(es) = 3 /\ DistinctNames(es)}
    /\ padCount = 0

\* Listings alone, of every archive and with every option.
InitList ==
    /\ ArchiveOf(ListMembers) \/ ArchiveOfThree(SortMembers)
    /\ SanitizerIdle
    /\ ReaderIdle
    /\ DetectorIdle
    /\ ManagerIdle

NextList ==
    \/ \E options \in ListOptions : ListMediaFiles(options)
    \/ \E options \in ListOptions : ZipScan(options)

SpecList == InitList /\ [][NextList]_vars

(***************************************************************************)
(* TempFileManager, call by call and await by await                        *)
(*                                                                         *)
(* A call is a task: it runs from one await to the next in one step, and   *)
(* the steps of the calls in progress interleave.  One pass of a loop      *)
(* whose body awaits one file operation is one step.                       *)
(***************************************************************************)

MAX_FILE_AGE == 86400000

MiB == 1024 * 1024

\* The variables the temp file manager leaves alone.
readerVars ==
    <<fileName, sanitized, entries, padCount, archiveFile, pathMappingCache, listing,
      extraction, detection, validation, tempFileCache, App>>

\* A file name of TEMP_DIR: `${prefix}${hash}${ext}`, followed by '.tmp' when
\* tmp holds.
TempName(prefix, hash, ext, tmp) ==
    [prefix |-> prefix, hash |-> hash, ext |-> ext, tmp |-> tmp]

NoName == TempName("", 0, "", FALSE)

\* Mutant of generateTempFileName: the name is made of the extension alone, so
\* two calls for one member give one name.
generateTempFileNameOfMember(hash, ext) == TempName("nv_", 0, ext, FALSE)

\* `nv_${hash}${ext}`, the hash being new with every call.
generateTempFileName(hash, ext) == TempName("nv_", hash, ext, FALSE)

\* Mutant of tmpSibling: the buffer is written under the final name.
tmpSiblingSame(name) == name

\* tempFilePath + '.tmp'
tmpSibling(name) == [name EXCEPT !.tmp = TRUE]

\* fileName.startsWith('nv_') && fileName.includes('.')
isTempFileName(name) == name.prefix = "nv_" /\ (name.ext # "" \/ name.tmp)

\* A file of TEMP_DIR; complete: all bytes of its buffer are written; locked:
\* fs.promises.unlink and rename of it fail.
File(size, complete, mtime, atime) ==
    [size |-> size, complete |-> complete, mtime |-> mtime, atime |-> atime,
     locked |-> FALSE]

removeFile(dir, name) == [n \in DOMAIN dir \ {name} |-> dir[n]]

putFile(dir, name, file) == (name :> file) @@ dir

\* fs.existsSync(filePath)
existsSync(dir, name) == name \in DOMAIN dir

\* unlink of the file fails.
unlinkFails(dir, name) == existsSync(dir, name) /\ dir[name].locked

\* A record of tempFiles.
TempFileInfo(path, size, accessed, zipSource) ==
    [path |-> path, size |-> size, accessed |-> accessed, zipSource |-> zipSource]

\* this.tempFiles.set(path, info): a new key is added last, a key that is there
\* keeps its place.
tempFilesSet(files, info) ==
    IF \E i \in 1..Len(files) : files[i].path = info.path
    THEN [i \in 1..Len(files) |-> IF files[i].path = info.path THEN info ELSE files[i]]
    ELSE Append(files, info)

\* this.tempFiles.delete(path)
tempFilesDelete(files, path) == SelectSeq(files, LAMBDA f : f.path # path)

\* The keys of records, in their order.
pathsOf(files) == [i \in 1..Len(files) |-> files[i].path]

\* A record into a sequence sorted by last access, behind those of the same
\* time (Array.prototype.sort is stable).
insertByAccessed(sorted, info) ==
    SubSeq(sorted, 1,
           Cardinality({i \in 1..Len(sorted) : sorted[i].accessed <= info.accessed}))
    \o <<info>>
    \o SubSeq(sorted,
              Cardinality({i \in 1..Len(sorted) : sorted[i].accessed <= info.accessed})
                  + 1,
              Len(sorted))

\* Array.from(this.tempFiles.entries()).sort(by accessed, ascending)
RECURSIVE sortByAccessed(_)
sortByAccessed(files) ==
    IF files = <<>> THEN <<>>
    ELSE insertByAccessed(sortByAccessed(SubSeq(files, 1, Len(files) - 1)),
                          files[Len(files)])

\* The place of a name in the listing of the directory.
nameOrder(name) == 2 * name.hash + (IF name.tmp THEN 1 ELSE 0)

\* The names of a set, in the order of the directory.
RECURSIVE inOrder(_)
inOrder(names) ==
    IF names = {} THEN <<>>
    ELSE <<CHOOSE n \in names : \A m \in names : nameOrder(n) <= nameOrder(m)>>
         \o inOrder(names \ {CHOOSE n \in names :
                                \A m \in names : nameOrder(n) <= nameOrder(m)})

\* fs.promises.readdir(TEMP_DIR), filtered as the loop of
\* discoverExistingTempFiles filters it.
discoverable(dir) == inOrder({n \in DOMAIN dir : isTempFileName(n)})

\* A call of the manager: op is the function called, pc the await it stands
\* at ("done": returned, "failed": thrown); size, ext and zipSource are
\* buffer.length, path.extname(originalPath) and zipSource of saveTempFile;
\* path is tempFilePath; queue and index are the list a loop runs over and the
\* place of the loop in it; result is what a handler returns.
NewTask(op, pc, size, ext, zipSource) ==
    [op |-> op, pc |-> pc, size |-> size, ext |-> ext, zipSource |-> zipSource,
     path |-> NoName, queue |-> <<>>, index |-> 1, freedSize |-> 0,
     targetFreeSize |-> 0, cleaned |-> 0, errors |-> <<>>, result |-> "none"]

\* Where a call goes on after ensureDiskSpace.
afterEnsure(op) == IF op = "saveTempFile" THEN "write" ELSE "done"

\* ensureDiskSpace(requiredSize) up to its first await: the totals, and the
\* records sorted by last access when the projected size is over the limit.
ensureEntered(task, files, requiredSize) ==
    IF totalSize(files) + requiredSize > MAX_TEMP_SIZE /\ files # <<>>
    THEN [task EXCEPT !.pc = "evict",
                      !.queue = sortByAccessed(files),
                      !.index = 1,
                      !.freedSize = 0,
                      !.targetFreeSize = totalSize(files) + requiredSize
                                         - MAX_TEMP_SIZE + MAX_TEMP_SIZE \div 10]
    ELSE [task EXCEPT !.pc = afterEnsure(task.op)]

\* The path a pass of a loop is at: the loop of ensureDiskSpace runs over
\* records, a cleanup loop over paths.
pathAt(task) ==
    IF task.pc \in {"evict", "evictUnlink", "evictUnlinked"}
    THEN task.queue[task.index].path
    ELSE task.queue[task.index]

\* if (fs.existsSync(filePath)) { await fs.promises.unlink(filePath) ...: the
\* unlink is handed to the thread pool and the call waits for it.
unlinkIssued(task) ==
    [task EXCEPT !.pc = IF task.pc = "evict" THEN "evictUnlink" ELSE "cleanUnlink"]

\* The thread pool has made the unlink: it failed when the file is not there
\* (any more) or cannot be deleted.
unlinkMade(task, dir) ==
    [task EXCEPT !.pc = IF task.pc = "evictUnlink" THEN "evictUnlinked" ELSE "cleanUnlinked",
                 !.result = IF existsSync(dir, pathAt(task)) /\ ~dir[pathAt(task)].locked
                            THEN "unlinked" ELSE "error"]

\* A pass of the loop of ensureDiskSpace whose unlink threw: the catch, and the
\* next pass.
evictFailed(task) ==
    [task EXCEPT !.index = @ + 1,
                 !.result = "none",
                 !.pc = IF task.index = Len(task.queue)
                        THEN afterEnsure(task.op) ELSE "evict"]

\* A pass of the loop of ensureDiskSpace that has freed `freed` bytes (0 when
\* the file was missing): the record is deleted, and the loop ends when
\* freedSize has reached targetFreeSize.
evicted(task, freed) ==
    [task EXCEPT !.index = @ + 1,
                 !.result = "none",
                 !.freedSize = @ + freed,
                 !.pc = IF \/ task.index = Len(task.queue)
                           \/ task.freedSize + freed >= task.targetFreeSize
                        THEN afterEnsure(task.op) ELSE "evict"]

\* Mutant of cleanFailed: the first failing deletion ends the batch.
cleanFailedAborts(task, path) ==
    [task EXCEPT !.errors = Append(@, path), !.index = Len(task.queue) + 1,
                 !.pc = "clean", !.result = "none"]

\* The catch of a cleanup loop: errors.push(...), and the loop goes on.
cleanFailed(task, path) ==
    [task EXCEPT !.errors = Append(@, path), !.index = @ + 1,
                 !.pc = "clean", !.result = "none"]

\* The try of a cleanup loop after the unlink, or for a file that was missing:
\* cleaned++.
cleanSucceeded(task) ==
    [task EXCEPT !.cleaned = @ + 1, !.index = @ + 1, !.pc = "clean", !.result = "none"]

\* A cleanup loop that has run over its list returns; the timer callback goes
\* on with ensureDiskSpace(0).
cleanReturned(task, files) ==
    IF task.index <= Len(task.queue) THEN task
    ELSE IF task.op = "timer" THEN ensureEntered(task, files, 0)
    ELSE [task EXCEPT !.pc = "done"]

\* Mutant of filesToClean: the records of every archive are taken.
filesToCleanOfAll(files, zipPath) == pathsOf(files)

\* The first loop of cleanupZip: the paths of the records whose zipSource is
\* zipPath.
filesToClean(files, zipPath) ==
    pathsOf(SelectSeq(files, LAMBDA f : f.zipSource = zipPath))

\* A cleanup call with the list of files it is to delete.
cleanupEntered(op, zipSource, queue, files) ==
    cleanReturned([NewTask(op, "clean", 0, "", zipSource) EXCEPT !.queue = queue], files)

\* Mutant of cancelOperation: the operation is reported as cancelled.
cancelOperationDone(operationId) == "true"

\* What the zip:cancelOperation handler returns: false, whatever the
\* identifier.
cancelOperation(operationId) == "false"

\* Mutant of startCleanupTimer: the interval that runs is not cleared.
startCleanupTimerNoClear(timer) == [set |-> TRUE, running |-> timer.running + 1]

\* startCleanupTimer(): clearInterval of the interval the field holds, then
\* setInterval.
startCleanupTimer(timer) ==
    [set |-> TRUE, running |-> (IF timer.set THEN timer.running - 1 ELSE timer.running) + 1]

\* stopCleanupTimer(): clearInterval of the interval the field holds, and the
\* field is null.
stopCleanupTimer(timer) ==
    IF timer.set THEN [set |-> FALSE, running |-> timer.running - 1] ELSE timer

\* Mutant of isOld: a record is too old from MAX_FILE_AGE on.
isOldFromLimit(info, time) == time - info.accessed >= MAX_FILE_AGE

\* fileAge > MAX_FILE_AGE, for a record
isOld(info, time) == time - info.accessed > MAX_FILE_AGE

(***************************************************************************)
(* The temp file manager over a directory that holds files of an earlier   *)
(* run                                                                     *)
(***************************************************************************)

\* How many calls of the manager a behaviour has.
MaxTasks == 2

\* How many times the clock is moved on.
MaxClock == 1

\* The clock moves by MAX_FILE_AGE; no call is in progress when it moves, a
\* call taking far less time than that.
ClockStep == MAX_FILE_AGE

StartTime == 2 * MAX_FILE_AGE

\* A file an earlier run left, last written and read `age` before the start.
Orphan(name, size, complete, age) ==
    name :> File(size, complete, StartTime - age, StartTime - age)

\* The same file, undeletable: it is held open by another process, or its
\* permissions forbid the unlink.
Locked(name, size, complete, age) ==
    name :> [File(size, complete, StartTime - age, StartTime - age)
                EXCEPT !.locked = TRUE]

\* The directory at the start: empty; three files of the cache that are not
\* too old, of 10, 120 and 90 MiB; the same with the first undeletable; or a
\* file that is too old, two files whose names have no extension, one too old
\* and one not, a '.tmp' file that was never renamed, and a file that is not
\* of the cache.
DirectoryStates ==
    {<<>>,
     Orphan(TempName("nv_", 91, ".jpg", FALSE), 10 * MiB, TRUE, MAX_FILE_AGE)
        @@ Orphan(TempName("nv_", 92, ".png", FALSE), 120 * MiB, TRUE, MAX_FILE_AGE \div 2)
        @@ Orphan(TempName("nv_", 93, ".jpg", FALSE), 90 * MiB, TRUE, MAX_FILE_AGE \div 4),
     Locked(TempName("nv_", 91, ".jpg", FALSE), 10 * MiB, TRUE, MAX_FILE_AGE)
        @@ Orphan(TempName("nv_", 92, ".png", FALSE), 120 * MiB, TRUE, MAX_FILE_AGE \div 2)
        @@ Orphan(TempName("nv_", 93, ".jpg", FALSE), 90 * MiB, TRUE, MAX_FILE_AGE \div 4),
     Orphan(TempName("nv_", 94, ".jpg", FALSE), 10 * MiB, TRUE, 2 * MAX_FILE_AGE)
        @@ Orphan(TempName("nv_", 95, "", FALSE), 10 * MiB, TRUE, 2 * MAX_FILE_AGE)
        @@ Orphan(TempName("nv_", 96, "", FALSE), 10 * MiB, TRUE, MAX_FILE_AGE \div 2)
        @@ Orphan(TempName("nv_", 97, ".jpg", TRUE), 5 * MiB, FALSE, MAX_FILE_AGE \div 2)
        @@ Orphan(TempName("", 98, ".txt", FALSE), MiB, TRUE, MAX_FILE_AGE \div 2)}

\* The buffers that are saved: a large image of one archive, a small file
\* without extension of another.
SaveInputs ==
    {[size |-> 120 * MiB, ext |-> ".jpg", zipSource |-> "a.zip"],
     [size |-> 10 * MiB, ext |-> "", zipSource |-> "b.zip"]}

\* The identifiers zip:cancelOperation is called with: one no operation has.
OperationIds == {"op-1"}

InitTemp ==
    /\ tempDir \in DirectoryStates
    /\ tasks = <<>>
    /\ now = StartTime
    /\ initialized = FALSE
    /\ cleanupTimer = NoTimer
    /\ SanitizerIdle
    /\ ArchiveIdle
    /\ ReaderIdle
    /\ DetectorIdle

\* A call of TempFileManager.initialize(): it returns at once when the manager
\* is initialized; else ensureTempDirectory, then the readdir of
\* discoverExistingTempFiles.  The call at the start of the process is made
\* once.
Initialize ==
    /\ Len(tasks) < MaxTasks
    /\ ~initialized => \A t \in 1..Len(tasks) : tasks[t].op # "initialize"
    /\ tasks' = Append(tasks,
                       IF initialized
                       THEN NewTask("initialize", "done", 0, "", "")
                       ELSE [NewTask("initialize", "discover", 0, "", "")
                                EXCEPT !.queue = discoverable(tempDir)])
    /\ UNCHANGED <<tempFiles, nextTempId, tempDir, now, initialized, cleanupTimer>>
    /\ UNCHANGED readerVars

\* A call of saveTempFile(buffer, originalPath, zipSource): initialize() when
\* the manager is not initialized, else ensureDiskSpace(buffer.length).
SaveTempFile(input) ==
    /\ Len(tasks) < MaxTasks
    /\ tasks' = Append(tasks,
                       IF initialized
                       THEN ensureEntered(NewTask("saveTempFile", "ensure", input.size,
                                                  input.ext, input.zipSource),
                                          tempFiles, input.size)
                       ELSE [NewTask("saveTempFile", "discover", input.size, input.ext,
                                     input.zipSource)
                                EXCEPT !.queue = discoverable(tempDir)])
    /\ UNCHANGED <<tempFiles, nextTempId, tempDir, now, initialized, cleanupTimer>>
    /\ UNCHANGED readerVars

\* One pass of the loop of discoverExistingTempFiles: stat, then unlink of a
\* file modified more than MAX_FILE_AGE ago, or the registration of the file.
DiscoverStep(t) ==
    /\ tasks[t].pc = "discover"
    /\ tasks[t].index <= Len(tasks[t].queue)
    /\ tasks' = [tasks EXCEPT ![t].index = @ + 1]
    /\ IF ~existsSync(tempDir, tasks[t].queue[tasks[t].index])
       THEN UNCHANGED <<tempFiles, tempDir>>
       ELSE IF now - tempDir[tasks[t].queue[tasks[t].index]].mtime > MAX_FILE_AGE
       THEN /\ tempDir' = IF unlinkFails(tempDir, tasks[t].queue[tasks[t].index])
                          THEN tempDir
                          ELSE removeFile(tempDir, tasks[t].queue[tasks[t].index])
            /\ UNCHANGED tempFiles
       ELSE /\ tempFiles' =
                   tempFilesSet(tempFiles,
                                TempFileInfo(tasks[t].queue[tasks[t].index],
                                             tempDir[tasks[t].queue[tasks[t].index]].size,
                                             tempDir[tasks[t].queue[tasks[t].index]].atime,
                                             "unknown"))
            /\ UNCHANGED tempDir
    /\ UNCHANGED <<nextTempId, now, initialized, cleanupTimer>>
    /\ UNCHANGED readerVars

\* The end of initialize(): startCleanupTimer(), initialized = true; a
\* saveTempFile that awaited it goes on with ensureDiskSpace.
DiscoverDone(t) ==
    /\ tasks[t].pc = "discover"
    /\ tasks[t].index > Len(tasks[t].queue)
    /\ cleanupTimer' = startCleanupTimer(cleanupTimer)
    /\ initialized' = TRUE
    /\ tasks' = [tasks EXCEPT ![t] = IF tasks[t].op = "initialize"
                                     THEN [tasks[t] EXCEPT !.pc = "done"]
                                     ELSE ensureEntered(tasks[t], tempFiles,
                                                        tasks[t].size)]
    /\ UNCHANGED <<tempFiles, nextTempId, tempDir, now>>
    /\ UNCHANGED readerVars

\* A pass of the loop of ensureDiskSpace up to its await: the file of the next
\* record of the sorted list is there and its unlink is issued, or it is
\* missing and the record is removed.
EvictStep(t) ==
    /\ tasks[t].pc = "evict"
    /\ IF existsSync(tempDir, pathAt(tasks[t]))
       THEN /\ tasks' = [tasks EXCEPT ![t] = unlinkIssued(tasks[t])]
            /\ UNCHANGED tempFiles
       ELSE /\ tasks' = [tasks EXCEPT ![t] = evicted(tasks[t], 0)]
            /\ tempFiles' = tempFilesDelete(tempFiles, pathAt(tasks[t]))
    /\ UNCHANGED <<nextTempId, tempDir, now, initialized, cleanupTimer>>
    /\ UNCHANGED readerVars

\* fs.promises.unlink(filePath) of a cleanup or eviction loop, in the thread
\* pool.
Unlink(t) ==
    /\ tasks[t].pc \in {"cleanUnlink", "evictUnlink"}
    /\ tasks' = [tasks EXCEPT ![t] = unlinkMade(tasks[t], tempDir)]
    /\ tempDir' = IF existsSync(tempDir, pathAt(tasks[t]))
                     /\ ~tempDir[pathAt(tasks[t])].locked
                  THEN removeFile(tempDir, pathAt(tasks[t]))
                  ELSE tempDir
    /\ UNCHANGED <<tempFiles, nextTempId, now, initialized, cleanupTimer>>
    /\ UNCHANGED readerVars

\* A pass of the loop of ensureDiskSpace after its await: freedSize is
\* increased and the record is removed, or the catch.
EvictUnlinked(t) ==
    /\ tasks[t].pc = "evictUnlinked"
    /\ IF tasks[t].result = "unlinked"
       THEN /\ tasks' = [tasks EXCEPT ![t] =
                            evicted(tasks[t], tasks[t].queue[tasks[t].index].size)]
            /\ tempFiles' = tempFilesDelete(tempFiles, pathAt(tasks[t]))
       ELSE /\ tasks' = [tasks EXCEPT ![t] = evictFailed(tasks[t])]
            /\ UNCHANGED tempFiles
    /\ UNCHANGED <<nextTempId, tempDir, now, initialized, cleanupTimer>>
    /\ UNCHANGED readerVars

\* saveTempFile after ensureDiskSpace: the name is generated and writeFile
\* starts to write the buffer to the '.tmp' sibling of the path.
WriteBegin(t) ==
    /\ tasks[t].pc = "write"
    /\ tasks' = [tasks EXCEPT ![t].pc = "writing",
                              ![t].path = generateTempFileName(nextTempId, tasks[t].ext)]
    /\ tempDir' = putFile(tempDir,
                          tmpSibling(generateTempFileName(nextTempId, tasks[t].ext)),
                          File(tasks[t].size \div 2, FALSE, now, now))
    /\ nextTempId' = nextTempId + 1
    /\ UNCHANGED <<tempFiles, now, initialized, cleanupTimer>>
    /\ UNCHANGED readerVars

\* writeFile has written the buffer.
WriteEnd(t) ==
    /\ tasks[t].pc = "writing"
    /\ tasks' = [tasks EXCEPT ![t].pc = "rename"]
    /\ tempDir' = IF existsSync(tempDir, tmpSibling(tasks[t].path))
                  THEN [tempDir EXCEPT ![tmpSibling(tasks[t].path)].size = tasks[t].size,
                                       ![tmpSibling(tasks[t].path)].complete = TRUE]
                  ELSE tempDir
    /\ UNCHANGED <<tempFiles, nextTempId, now, initialized, cleanupTimer>>
    /\ UNCHANGED readerVars

\* writeFile fails before the buffer is written: saveTempFile throws, and the
\* file stays as it is.
WriteFail(t) ==
    /\ tasks[t].pc = "writing"
    /\ tasks' = [tasks EXCEPT ![t].pc = "failed"]
    /\ UNCHANGED <<tempFiles, nextTempId, tempDir, now, initialized, cleanupTimer>>
    /\ UNCHANGED readerVars

\* fs.promises.rename(tempFileTmp, tempFilePath)
Rename(t) ==
    /\ tasks[t].pc = "rename"
    /\ IF existsSync(tempDir, tmpSibling(tasks[t].path))
          /\ ~tempDir[tmpSibling(tasks[t].path)].locked
       THEN /\ tempDir' = putFile(removeFile(tempDir, tmpSibling(tasks[t].path)),
                                  tasks[t].path, tempDir[tmpSibling(tasks[t].path)])
            /\ tasks' = [tasks EXCEPT ![t].pc = "chmod"]
       ELSE /\ tasks' = [tasks EXCEPT ![t].pc = "failed"]
            /\ UNCHANGED tempDir
    /\ UNCHANGED <<tempFiles, nextTempId, now, initialized, cleanupTimer>>
    /\ UNCHANGED readerVars

\* fs.promises.chmod(tempFilePath, 0o600), then this.tempFiles.set(...) and the
\* return of the path.
Register(t) ==
    /\ tasks[t].pc = "chmod"
    /\ IF existsSync(tempDir, tasks[t].path)
       THEN /\ tempFiles' = tempFilesSet(tempFiles,
                                         TempFileInfo(tasks[t].path, tasks[t].size, now,
                                                      tasks[t].zipSource))
            /\ tasks' = [tasks EXCEPT ![t].pc = "done"]
       ELSE /\ tasks' = [tasks EXCEPT ![t].pc = "failed"]
            /\ UNCHANGED tempFiles
    /\ UNCHANGED <<nextTempId, tempDir, now, initialized, cleanupTimer>>
    /\ UNCHANGED readerVars

\* A call of updateAccess(tempFilePath) for a record whose last access is not
\* of this moment already.
UpdateAccess(i) ==
    /\ tempFiles[i].accessed # now
    /\ tempFiles' = [tempFiles EXCEPT ![i].accessed = now]
    /\ UNCHANGED managerVars
    /\ UNCHANGED nextTempId
    /\ UNCHANGED readerVars

\* A call of cleanupZip(zipPath).
CleanupZip(zipPath) ==
    /\ Len(tasks) < MaxTasks
    /\ tasks' = Append(tasks,
                       cleanupEntered("cleanupZip", zipPath,
                                      filesToClean(tempFiles, zipPath), tempFiles))
    /\ UNCHANGED <<tempFiles, nextTempId, tempDir, now, initialized, cleanupTimer>>
    /\ UNCHANGED readerVars

\* A call of cleanupAll().
CleanupAll ==
    /\ Len(tasks) < MaxTasks
    /\ tasks' = Append(tasks, cleanupEntered("cleanupAll", "", pathsOf(tempFiles),
                                             tempFiles))
    /\ UNCHANGED <<tempFiles, nextTempId, tempDir, now, initialized, cleanupTimer>>
    /\ UNCHANGED readerVars

\* The callback of the cleanup timer: cleanupOldFiles(), followed by
\* ensureDiskSpace(0).
TimerTick ==
    /\ cleanupTimer.running > 0
    /\ Len(tasks) < MaxTasks
    /\ tasks' = Append(tasks,
                       cleanupEntered("timer", "",
                                      pathsOf(SelectSeq(tempFiles,
                                                        LAMBDA f : isOld(f, now))),
                                      tempFiles))
    /\ UNCHANGED <<tempFiles, nextTempId, tempDir, now, initialized, cleanupTimer>>
    /\ UNCHANGED readerVars

\* A pass of the loop of cleanupZip, cleanupAll or cleanupOldFiles up to its
\* await: the file is there and its unlink is issued, or it is missing, the
\* record is removed and the file counts as cleaned.
CleanStep(t) ==
    /\ tasks[t].pc = "clean"
    /\ IF existsSync(tempDir, pathAt(tasks[t]))
       THEN /\ tasks' = [tasks EXCEPT ![t] = unlinkIssued(tasks[t])]
            /\ UNCHANGED tempFiles
       ELSE /\ tempFiles' = tempFilesDelete(tempFiles, pathAt(tasks[t]))
            /\ tasks' = [tasks EXCEPT ![t] =
                            cleanReturned(cleanSucceeded(tasks[t]),
                                          tempFilesDelete(tempFiles, pathAt(tasks[t])))]
    /\ UNCHANGED <<nextTempId, tempDir, now, initialized, cleanupTimer>>
    /\ UNCHANGED readerVars

\* A pass of a cleanup loop after its await: the record is removed and the
\* file counts as cleaned, or the catch.
CleanUnlinked(t) ==
    /\ tasks[t].pc = "cleanUnlinked"
    /\ IF tasks[t].result = "unlinked"
       THEN /\ tempFiles' = tempFilesDelete(tempFiles, pathAt(tasks[t]))
            /\ tasks' = [tasks EXCEPT ![t] =
                            cleanReturned(cleanSucceeded(tasks[t]),
                                          tempFilesDelete(tempFiles, pathAt(tasks[t])))]
       ELSE /\ tasks' = [tasks EXCEPT ![t] =
                            cleanReturned(cleanFailed(tasks[t], pathAt(tasks[t])),
                                          tempFiles)]
            /\ UNCHANGED tempFiles
    /\ UNCHANGED <<nextTempId, tempDir, now, initialized, cleanupTimer>>
    /\ UNCHANGED readerVars

\* A call of shutdown(): stopCleanupTimer().  The record of the call keeps the
\* paths that are tracked when it is made.
Shutdown ==
    /\ Len(tasks) < MaxTasks
    /\ tasks' = Append(tasks, [NewTask("shutdown", "done", 0, "", "")
                                  EXCEPT !.queue = pathsOf(tempFiles)])
    /\ cleanupTimer' = stopCleanupTimer(cleanupTimer)
    /\ UNCHANGED <<tempFiles, nextTempId, tempDir, now, initialized>>
    /\ UNCHANGED readerVars

\* The process ends after shutdown(), no call being in progress, and a new
\* process starts: the static fields of the manager are new, the directory is
\* as it was.  Of the calls of the process that ended, the record of the last
\* shutdown() is kept.
ProcessStart ==
    /\ initialized
    /\ tasks # <<>>
    /\ tasks[Len(tasks)].op = "shutdown"
    /\ \A t \in 1..Len(tasks) : tasks[t].pc \in {"done", "failed"}
    /\ tasks' = <<tasks[Len(tasks)]>>
    /\ tempFiles' = <<>>
    /\ initialized' = FALSE
    /\ cleanupTimer' = NoTimer
    /\ UNCHANGED <<nextTempId, tempDir, now>>
    /\ UNCHANGED readerVars

\* The zip:cancelOperation handler.
ZipCancelOperation(operationId) ==
    /\ Len(tasks) < MaxTasks
    /\ tasks' = Append(tasks, [NewTask("zip:cancelOperation", "done", 0, "", operationId)
                                  EXCEPT !.result = cancelOperation(operationId)])
    /\ UNCHANGED <<tempFiles, nextTempId, tempDir, now, initialized, cleanupTimer>>
    /\ UNCHANGED readerVars

\* `${zipPath}::${internalPath}`; a member is told from the others by its
\* archive and its extension.
cacheKey(zipPath, ext) == <<zipPath, ext>>

\* `zip_${Date.now()}_${random}${ext}`, ext being path.extname(internalPath)
\* || '.tmp'; id stands for the time and the random part.
extractedName(id, ext) == TempName("zip_", id, ext, ext = "")

\* The state of ZipHandler next to its mapping cache is not touched by a call
\* of extractToTempFile.
extractFrame == <<fileName, sanitized, entries, padCount, archiveFile, pathMappingCache,
                  listing, extraction, detection, validation, App>>

\* A call of ZipHandler.extractToTempFile(zipPath, internalPath) up to its
\* await: the path of the cache is returned when its file exists; else the
\* key is deleted and extractFile is called.
ExtractToTempFile(input) ==
    /\ Len(tasks) < MaxTasks
    /\ IF /\ cacheKey(input.zipSource, input.ext) \in DOMAIN tempFileCache
          /\ existsSync(tempDir, tempFileCache[cacheKey(input.zipSource, input.ext)])
       THEN /\ tasks' = Append(tasks,
                               [NewTask("extractToTempFile", "done", input.size,
                                        input.ext, input.zipSource)
                                   EXCEPT !.path = tempFileCache[cacheKey(input.zipSource,
                                                                          input.ext)]])
            /\ UNCHANGED tempFileCache
       ELSE /\ tasks' = Append(tasks, NewTask("extractToTempFile", "extract", input.size,
                                              input.ext, input.zipSource))
            /\ tempFileCache' =
                   [key \in DOMAIN tempFileCache
                             \ {cacheKey(input.zipSource, input.ext)} |->
                       tempFileCache[key]]
    /\ UNCHANGED <<tempFiles, nextTempId, tempDir, now, initialized, cleanupTimer>>
    /\ UNCHANGED extractFrame

\* extractToTempFile after extractFile has returned the buffer:
\* fs.writeFileSync(tempPath, buffer), tempFileCache.set(cacheKey, tempPath)
\* and the return of the path.
ExtractWritten(t) ==
    /\ tasks[t].pc = "extract"
    /\ tempDir' = putFile(tempDir, extractedName(nextTempId, tasks[t].ext),
                          File(tasks[t].size, TRUE, now, now))
    /\ tempFileCache' = mapSet(tempFileCache, cacheKey(tasks[t].zipSource, tasks[t].ext),
                               extractedName(nextTempId, tasks[t].ext))
    /\ tasks' = [tasks EXCEPT ![t].pc = "done",
                              ![t].path = extractedName(nextTempId, tasks[t].ext)]
    /\ nextTempId' = nextTempId + 1
    /\ UNCHANGED <<tempFiles, now, initialized, cleanupTimer>>
    /\ UNCHANGED extractFrame

\* The file of a key of tempFileCache is deleted from outside, while no call
\* is in progress.
UnlinkExtractedOutside(key) ==
    /\ \A t \in 1..Len(tasks) : tasks[t].pc \in {"done", "failed"}
    /\ existsSync(tempDir, tempFileCache[key])
    /\ tempDir' = removeFile(tempDir, tempFileCache[key])
    /\ UNCHANGED <<tempFiles, nextTempId, tasks, now, initialized, cleanupTimer>>
    /\ UNCHANGED readerVars

\* Time passes while no call is in progress.
Advance ==
    /\ \A t \in 1..Len(tasks) : tasks[t].pc \in {"done", "failed"}
    /\ now < StartTime + MaxClock * ClockStep
    /\ now' = now + ClockStep
    /\ UNCHANGED <<tempFiles, nextTempId, tempDir, tasks, initialized, cleanupTimer>>
    /\ UNCHANGED readerVars

\* The file of a record is deleted from outside (TEMP_DIR is in os.tmpdir()),
\* while no call is in progress and no other record lacks its file.
UnlinkOutside(i) ==
    /\ \A t \in 1..Len(tasks) : tasks[t].pc \in {"done", "failed"}
    /\ \A k \in 1..Len(tempFiles) : existsSync(tempDir, tempFiles[k].path)
    /\ ~unlinkFails(tempDir, tempFiles[i].path)
    /\ tempDir' = removeFile(tempDir, tempFiles[i].path)
    /\ UNCHANGED <<tempFiles, nextTempId, tasks, now, initialized, cleanupTimer>>
    /\ UNCHANGED readerVars

NextTemp ==
    \/ Initialize
    \/ \E input \in SaveInputs : SaveTempFile(input)
    \/ \E t \in 1..Len(tasks) : DiscoverStep(t)
    \/ \E t \in 1..Len(tasks) : DiscoverDone(t)
    \/ \E t \in 1..Len(tasks) : EvictStep(t)
    \/ \E t \in 1..Len(tasks) : WriteBegin(t)
    \/ \E t \in 1..Len(tasks) : WriteEnd(t)
    \/ \E t \in 1..Len(tasks) : WriteFail(t)
    \/ \E t \in 1..Len(tasks) : Rename(t)
    \/ \E t \in 1..Len(tasks) : Register(t)
    \/ \E i \in 1..Len(tempFiles) : UpdateAccess(i)
    \/ CleanupZip("a.zip")
    \/ CleanupAll
    \/ TimerTick
    \/ \E t \in 1..Len(tasks) : CleanStep(t)
    \/ \E t \in 1..Len(tasks) : CleanUnlinked(t)
    \/ \E t \in 1..Len(tasks) : Unlink(t)
    \/ \E t \in 1..Len(tasks) : EvictUnlinked(t)
    \/ Advance
    \/ \E i \in 1..Len(tempFiles) : UnlinkOutside(i)
    \/ Shutdown
    \/ ProcessStart
    \/ \E operationId \in OperationIds : ZipCancelOperation(operationId)

SpecTemp == InitTemp /\ [][NextTemp]_vars

(***************************************************************************)
(* The temp file manager after its start, with the timer running: the      *)
(* timer callback and the calls made of an initialized manager             *)
(***************************************************************************)

\* The records of the files of a directory, as they are tracked: in the order
\* in which they were registered, with the last access their files have.
trackedAs(dir, zipSource) ==
    [i \in 1..Len(discoverable(dir)) |->
        TempFileInfo(discoverable(dir)[i], dir[discoverable(dir)[i]].size,
                     dir[discoverable(dir)[i]].atime, zipSource)]

\* The cache when the timer fires: three files of an earlier run that
\* initialize() has registered, 220 MiB together; the same with the first
\* undeletable; or three files that saveTempFile has written for a.zip,
\* 190 MiB together.
RaceCaches ==
    {[dir |-> d, zipSource |-> "unknown"] :
        d \in {e \in DirectoryStates : Cardinality(DOMAIN e) = 3}}
    \cup
    {[dir |-> Orphan(TempName("nv_", 91, ".jpg", FALSE), 10 * MiB, TRUE, MAX_FILE_AGE)
                @@ Orphan(TempName("nv_", 92, ".png", FALSE), 90 * MiB, TRUE, MAX_FILE_AGE \div 2)
                @@ Orphan(TempName("nv_", 93, ".jpg", FALSE), 90 * MiB, TRUE, MAX_FILE_AGE \div 4),
      zipSource |-> "a.zip"]}

\* The manager is initialized and no call is in progress; it is the start
\* time, or MAX_FILE_AGE later.
InitRace ==
    /\ \E cache \in RaceCaches :
           /\ tempDir = cache.dir
           /\ tempFiles = trackedAs(cache.dir, cache.zipSource)
    /\ tasks = <<>>
    /\ now \in {StartTime, StartTime + ClockStep}
    /\ initialized = TRUE
    /\ cleanupTimer = startCleanupTimer(NoTimer)
    /\ nextTempId = 1
    /\ pathMappingCache = EmptyCache
    /\ listing = NoListing
    /\ extraction = NoExtraction
    /\ tempFileCache = NoTempFileCache
    /\ App = useState
    /\ SanitizerIdle
    /\ ArchiveIdle
    /\ DetectorIdle

NextRace ==
    \/ TimerTick
    \/ Initialize
    \/ Shutdown
    \/ \E input \in SaveInputs : ExtractToTempFile(input)
    \/ \E t \in 1..Len(tasks) : ExtractWritten(t)
    \/ \E key \in DOMAIN tempFileCache : UnlinkExtractedOutside(key)
    \/ CleanupAll
    \/ CleanupZip("a.zip")
    \/ \E input \in SaveInputs : SaveTempFile(input)
    \/ \E t \in 1..Len(tasks) : CleanStep(t)
    \/ \E t \in 1..Len(tasks) : CleanUnlinked(t)
    \/ \E t \in 1..Len(tasks) : EvictStep(t)
    \/ \E t \in 1..Len(tasks) : EvictUnlinked(t)
    \/ \E t \in 1..Len(tasks) : Unlink(t)
    \/ \E t \in 1..Len(tasks) : WriteBegin(t)
    \/ \E t \in 1..Len(tasks) : WriteEnd(t)
    \/ \E t \in 1..Len(tasks) : WriteFail(t)
    \/ \E t \in 1..Len(tasks) : Rename(t)
    \/ \E t \in 1..Len(tasks) : Register(t)

SpecRace == InitRace /\ [][NextRace]_vars

(***************************************************************************)
(* The statements that are checked                                         *)
(***************************************************************************)

HasDotDotSegment(p) == \E i \in 1..Len(SplitSlash(p)) : SplitSlash(p)[i] = <<".", ".">>

HasDrivePrefix(p) ==
    Len(p) >= 2 /\ p[1] \in (LowerCase \cup UpperCase) /\ p[2] = ":"

\* C8: whatever the input, the result of sanitizeFileName is non-traversing: it
\* has no ".." segment, no leading separator and no drive-letter prefix.
C8_NonTraversing ==
    sanitized # <<>> =>
        /\ ~HasDotDotSegment(sanitized[1])
        /\ ~isAbsolute(sanitized[1])
        /\ ~HasDrivePrefix(sanitized[1])

\* C9: whatever the lengths of the base name and of the extension, the result of
\* sanitizeFileName is at most 255 units long and has the extension the name
\* had when it reached the length limit.
C9_LengthAndExtension ==
    sanitized # <<>> =>
        /\ Len(sanitized[1]) <= 255
        /\ extname(sanitized[1]) = extname(beforeLengthLimit(makeRelative(fileName)))

\* C10: with or without directory components, the base name of the result of
\* sanitizeFileName (last component, extension stripped, upper-cased) is no
\* reserved device name.
C10_NotReserved ==
    sanitized # <<>> =>
        toUpperCase(basename(sanitized[1], extname(sanitized[1]))) \notin RESERVED_NAMES

RECURSIVE SumOf(_, _)
\* The sum of field f ("size" or "compressedSize") over the listed members.
SumOf(es, f) == IF es = <<>> THEN 0 ELSE Head(es)[f] + SumOf(Tail(es), f)

\* The entry is over a per-entry limit: more than 500 MiB, or a ratio over 100.
OverEntryLimit(e) ==
    \/ e.size > 500 * 1024 * 1024
    \/ ratioExceeds(e.size, e.compressedSize, 100)

NameChanged(e) == sanitizeFileName(e.entryName) # e.entryName

\* C5: detectZipBomb reports isBlocked exactly when the entry count is over
\* 10,000, or total uncompressed / total compressed is over 100, or the total
\* uncompressed size is over 1 GiB, or validateEntry rates some entry critical;
\* one entry of ratio 200 is blocked, one plainly named entry of ratio 50 is not.
C5_BlockedExactly ==
    detection.called =>
        /\ detection.result.isBlocked <=>
               \/ Len(entries) + padCount > 10000
               \/ ratioExceeds(SumOf(entries, "size"), SumOf(entries, "compressedSize"), 100)
               \/ SumOf(entries, "size") > 1024 * 1024 * 1024
               \/ \E i \in 1..Len(entries) : validateEntry(entries[i]).severity = "critical"
        /\ (Len(entries) = 1 /\ padCount = 0 /\ entries[1].size = 204800
            /\ entries[1].compressedSize = 1024) => detection.result.isBlocked
        /\ (Len(entries) = 1 /\ padCount = 0 /\ entries[1].size = 51200
            /\ entries[1].compressedSize = 1024 /\ entries[1].entryName = PlainName)
               => ~detection.result.isBlocked

\* C5, witness: an archive blocked for its total size alone (no critical entry,
\* no more than 10,000 entries, an aggregate ratio of at most 100).
C5_Witness ==
    /\ detection.called
    /\ detection.result.isBlocked
    /\ SumOf(entries, "size") > 1024 * 1024 * 1024
    /\ Len(entries) + padCount <= 10000
    /\ ~ratioExceeds(SumOf(entries, "size"), SumOf(entries, "compressedSize"), 100)
    /\ \A i \in 1..Len(entries) : validateEntry(entries[i]).severity # "critical"

\* C6 as stated: validateEntry rates an entry critical, and so invalid, exactly
\* when it is over 500 MiB, or its ratio is over 100, or sanitizeFileName changes
\* its name; an archive with a member whose name is changed is blocked.
C6_CriticalOnNameChange ==
    /\ validation.called =>
           /\ validation.result.severity = "critical" <=>
                  (OverEntryLimit(entries[validation.entry])
                   \/ NameChanged(entries[validation.entry]))
           /\ validation.result.valid <=> validation.result.severity # "critical"
    /\ (detection.called /\ \E i \in 1..Len(entries) : NameChanged(entries[i]))
           => detection.result.isBlocked

\* C6 amended: validateEntry rates an entry critical, and so invalid, exactly
\* when it is over 500 MiB or its ratio is over 100; a name that sanitizeFileName
\* changes never makes the entry critical (it is rated high or medium and stays
\* valid), and an archive is never blocked on account of such a name.
C6_CriticalOnLimitsOnly ==
    /\ validation.called =>
           /\ validation.result.severity = "critical" <=>
                  OverEntryLimit(entries[validation.entry])
           /\ validation.result.valid <=> validation.result.severity # "critical"
           /\ (NameChanged(entries[validation.entry])
               /\ ~OverEntryLimit(entries[validation.entry]))
                  => /\ validation.result.severity \in {"high", "medium"}
                     /\ validation.result.valid
    /\ (detection.called /\ detection.result.isBlocked) =>
           \/ Len(entries) + padCount > 10000
           \/ ratioExceeds(SumOf(entries, "size"), SumOf(entries, "compressedSize"), 100)
           \/ SumOf(entries, "size") > 1024 * 1024 * 1024
           \/ \E i \in 1..Len(entries) : OverEntryLimit(entries[i])

\* C6, witness: an entry whose name sanitization changes has been validated and
\* is rated high and valid, in an archive that detectZipBomb does not block.
C6_Witness ==
    /\ validation.called
    /\ NameChanged(entries[validation.entry])
    /\ validation.result.severity = "high"
    /\ validation.result.valid
    /\ detection.called
    /\ ~detection.result.isBlocked

\* C1: the `path` values of the descriptors that one call of listMediaFiles
\* returns are pairwise distinct.
C1_DistinctPaths ==
    listing.kind = "ok" =>
        \A i, j \in 1..Len(listing.files) :
            listing.files[i].path = listing.files[j].path => i = j

\* The member a call of extractFile returned the bytes of.
ExtractedName == EntryAt(entries, extraction.entry).entryName

\* C2: extractFile of the internal path of a descriptor, with the mapping cache
\* as the scan left it, returns the bytes of the member the descriptor names
\* (of an archive whose members can be read).
C2_RoundTrip ==
    (extraction.op # "none" /\ archiveFile = "ok" /\ ~extraction.cold
     /\ extraction.descriptors # {}) =>
        /\ extraction.kind = "ok"
        /\ \A name \in extraction.descriptors : ExtractedName = name

\* C3: extractFile of the internal path of a descriptor, with an empty mapping
\* cache, still resolves to the member the descriptor names, and does not fail
\* with CORRUPTED_ARCHIVE.
C3_ColdResolution ==
    (extraction.op # "none" /\ archiveFile = "ok" /\ extraction.cold
     /\ extraction.descriptors # {}) =>
        /\ extraction.kind # "CORRUPTED_ARCHIVE"
        /\ extraction.entry # 0
        /\ \A name \in extraction.descriptors : ExtractedName = name

\* C4: for an archive that detectZipBomb blocks, no call of extractFile or of
\* the zip:extractFile handler returns bytes, and no temp file is written.
C4_BlockedNotExtracted ==
    detectZipBomb(entries, padCount).isBlocked =>
        /\ extraction.kind # "ok"
        /\ extraction.tempFile = 0
        /\ tempFiles = <<>>

\* C7: listMediaFiles on a blocked archive that has entries fails with
\* ZIP_BOMB_DETECTED, carrying the reasons and the statistics of detectZipBomb,
\* and returns no descriptor; zip:scan fails with the same kind.
C7_BlockedListingFails ==
    (listing.op # "none" /\ archiveFile = "ok" /\ Len(entries) + padCount > 0
     /\ detectZipBomb(entries, padCount).isBlocked) =>
        /\ listing.kind = "ZIP_BOMB_DETECTED"
        /\ listing.files = <<>>
        /\ listing.reasons = detectZipBomb(entries, padCount).reasons
        /\ listing.reasons # <<>>
        /\ listing.statistics = detectZipBomb(entries, padCount).statistics
        /\ listing.statistics.totalFiles = Len(entries) + padCount
        /\ listing.info = NoInfo

\* C7, witness: the zip:scan handler has failed with ZIP_BOMB_DETECTED on an
\* archive that is blocked for the number of its entries.
C7_Witness ==
    /\ listing.op = "zip:scan"
    /\ listing.kind = "ZIP_BOMB_DETECTED"
    /\ Len(entries) + padCount > 10000
    /\ listing.reasons # <<>>

\* C11: sanitizeFileName is idempotent: applied to its own result it returns
\* that result.
C11_Idempotent == Len(sanitized) = 2 => sanitized[2] = sanitized[1]

\* The member a call of extractFile resolved its internal path to.
ExtractedEntry == EntryAt(entries, extraction.entry)

\* C18: extractFile on an archive that opens reports the first failing check
\* in the order: no entry resolves (CORRUPTED_ARCHIVE), size over 500 MiB
\* (FILE_TOO_LARGE, never ZIP_BOMB_DETECTED), validateEntry invalid
\* (ZIP_BOMB_DETECTED), empty read (CORRUPTED_ARCHIVE); it returns bytes only
\* when all pass, so never those of a member with a ratio over 100.
C18_FirstFailingCheck ==
    (extraction.op # "none" /\ archiveFile \in {"ok", "unreadable"}) =>
        /\ extraction.entry = 0 => extraction.kind = "CORRUPTED_ARCHIVE"
        /\ extraction.kind = "FILE_TOO_LARGE" <=>
               (extraction.entry # 0 /\ ExtractedEntry.size > 500 * 1024 * 1024)
        /\ extraction.kind = "ZIP_BOMB_DETECTED" <=>
               /\ extraction.entry # 0
               /\ ExtractedEntry.size <= 500 * 1024 * 1024
               /\ ~validateEntry(ExtractedEntry).valid
        /\ extraction.kind = "CORRUPTED_ARCHIVE" <=>
               \/ extraction.entry = 0
               \/ /\ ExtractedEntry.size <= 500 * 1024 * 1024
                  /\ validateEntry(ExtractedEntry).valid
                  /\ archiveFile = "unreadable"
        /\ extraction.kind \in {"ok", "CORRUPTED_ARCHIVE", "FILE_TOO_LARGE",
                                "ZIP_BOMB_DETECTED"}
        /\ extraction.kind = "ok" =>
               ~ratioExceeds(ExtractedEntry.size, ExtractedEntry.compressedSize, 100)

\* C18, witness: extractFile has failed with FILE_TOO_LARGE for a member that
\* validateEntry rates invalid too.
C18_Witness ==
    /\ extraction.op # "none"
    /\ extraction.kind = "FILE_TOO_LARGE"
    /\ extraction.entry # 0
    /\ ~validateEntry(ExtractedEntry).valid

\* C16: a descriptor of a member whose raw name is not garbled carries the
\* member's own name: name is the base name of the raw entry name and
\* internalPath is the sanitized raw name; the page_<NNN><ext> name is for
\* garbled names only.
C16_OwnNameUnlessGarbled ==
    listing.kind = "ok" =>
        \A i \in 1..Len(listing.files) :
            ~hasGarbledCharacters(listing.files[i].originalEntryName) =>
                /\ listing.files[i].name
                       = basename(listing.files[i].originalEntryName, <<>>)
                /\ listing.files[i].internalPath
                       = sanitizeFileName(listing.files[i].originalEntryName)

\* An entry that is to be listed: no directory, an extension of the allow-list
\* whatever its case, and a size within options.maxFileSize when that is given.
Listable(entry, options) ==
    /\ entry.entryName[Len(entry.entryName)] # "/"
    /\ toLowerCase(SubSeq(extname(entry.entryName), 2, Len(extname(entry.entryName))))
           \in SUPPORTED_IMAGE_EXTS \cup SUPPORTED_VIDEO_EXTS
    /\ options.maxFileSizeGiven => entry.size <= options.maxFileSize

\* The descriptors of a listing that name an entry.
DescriptorsFor(entry) ==
    {k \in 1..Len(listing.files) : listing.files[k].originalEntryName = entry.entryName}

\* C17: for an archive that is not blocked, listMediaFiles returns exactly one
\* descriptor for each entry that is to be listed and none for any other
\* entry; for an archive without entries it returns the empty list.
C17_ExactlyListable ==
    (listing.op # "none" /\ archiveFile = "ok"
     /\ ~detectZipBomb(entries, padCount).isBlocked) =>
        /\ listing.kind = "ok"
        /\ \A i \in 1..Len(entries) :
               Cardinality(DescriptorsFor(entries[i]))
                   = IF Listable(entries[i], listing.options) THEN 1 ELSE 0
        /\ \A k \in 1..Len(listing.files) :
               \E i \in 1..Len(entries) : k \in DescriptorsFor(entries[i])

\* The calls of saveTempFile that have not returned.
PendingSaves ==
    {t \in 1..Len(tasks) :
        tasks[t].op = "saveTempFile" /\ tasks[t].pc \notin {"done", "failed"}}

\* The size of the largest buffer that is being saved, 0 when there is none.
PendingWrite ==
    IF PendingSaves = {} THEN 0
    ELSE tasks[CHOOSE t \in PendingSaves :
                   \A u \in PendingSaves : tasks[u].size <= tasks[t].size].size

\* C12: in every reachable state of the temp cache the sizes of the tracked
\* records sum to at most MAX_TEMP_SIZE plus the size of one pending write.
C12_TrackedWithinCap == totalSize(tempFiles) <= MAX_TEMP_SIZE + PendingWrite

\* The last access of the tracked record of a path.
LastAccess(path) ==
    tempFiles[CHOOSE i \in 1..Len(tempFiles) : tempFiles[i].path = path].accessed

\* A step of ensureDiskSpace, in call t, that removes a record.
EvictionRemoves(t) ==
    /\ tasks[t].pc \in {"evict", "evictUnlinked"}
    /\ tasks'[t] # tasks[t]
    /\ Len(tempFiles') < Len(tempFiles)

\* C13: whenever ensureDiskSpace removes a record, no record it leaves tracked
\* has an older last access at that moment, updateAccess calls that completed
\* while the eviction awaited an earlier unlink included (every file being
\* deletable).
C13_EvictsLeastRecent ==
    [][\A t \in 1..Len(tasks) :
          (EvictionRemoves(t) /\ \A n \in DOMAIN tempDir : ~tempDir[n].locked) =>
              \A i \in 1..Len(tempFiles') :
                  LastAccess(tasks[t].queue[tasks[t].index].path)
                      <= tempFiles'[i].accessed]_vars

\* The calls of saveTempFile that have not renamed their file into place.
SavesBeforeRename ==
    {t \in 1..Len(tasks) :
        tasks[t].op = "saveTempFile" /\ tasks[t].pc \in {"writing", "rename"}}

\* C14: at every point of every interleaving a file under a final cache name
\* holds the complete bytes of its save: partial content is under a '.tmp'
\* name only, and the record of a save is registered only after the rename.
C14_FinalNameComplete ==
    /\ \A n \in DOMAIN tempDir : (n.prefix = "nv_" /\ ~n.tmp) => tempDir[n].complete
    /\ \A t \in SavesBeforeRename :
           /\ ~existsSync(tempDir, tasks[t].path)
           /\ \A i \in 1..Len(tempFiles) : tempFiles[i].path # tasks[t].path
    /\ \A i \in 1..Len(tempFiles) :
           tempFiles[i].zipSource # "unknown" =>
               /\ ~tempFiles[i].path.tmp
               /\ \E t \in 1..Len(tasks) :
                      /\ tasks[t].op = "saveTempFile"
                      /\ tasks[t].pc = "done"
                      /\ tasks[t].path = tempFiles[i].path

\* C14, witness: a save is writing its buffer, the '.tmp' file holds a part of
\* it, and another save has renamed its file into place.
C14_Witness ==
    \E t, u \in 1..Len(tasks) :
        /\ tasks[t].pc = "writing"
        /\ existsSync(tempDir, tmpSibling(tasks[t].path))
        /\ ~tempDir[tmpSibling(tasks[t].path)].complete
        /\ tasks[u].pc = "chmod"
        /\ existsSync(tempDir, tasks[u].path)

\* A file that was in the directory before the start, under a name nv_*.
OrphansOnDisk ==
    {n \in DOMAIN tempDir : n.prefix = "nv_" /\ tempDir[n].mtime < StartTime}

\* The path is tracked with the source 'unknown'.
TrackedAsUnknown(path) ==
    \E i \in 1..Len(tempFiles) :
        tempFiles[i].path = path /\ tempFiles[i].zipSource = "unknown"

\* C15: after initialize() has completed, every file that was in the directory
\* before under a name nv_*, with or without extension, is tracked with source
\* 'unknown' when it was modified at most 24 hours ago, and is deleted and not
\* tracked when it is older (and can be deleted).
C15_OrphansRecovered ==
    (initialized /\ now = StartTime) =>
        \A n \in OrphansOnDisk :
            IF StartTime - tempDir[n].mtime <= MAX_FILE_AGE
            THEN TrackedAsUnknown(n)
            ELSE tempDir[n].locked

\* The calls of cleanupZip and cleanupAll.
CleanupCalls ==
    {t \in 1..Len(tasks) : tasks[t].op \in {"cleanupZip", "cleanupAll"}}

\* The files a cleanup call has gone through, and those among them it counts
\* as cleaned.
Attempted(t) == {tasks[t].queue[k] : k \in 1..(tasks[t].index - 1)}

Failed(t) == {tasks[t].errors[k] : k \in 1..Len(tasks[t].errors)}

IsTracked(path) == \E i \in 1..Len(tempFiles) : tempFiles[i].path = path

\* C19: cleanupZip and cleanupAll attempt every targeted file on its own: a
\* failing deletion does not end the batch, cleaned + errors.length is the
\* number of targeted records, a record counted as cleaned is not tracked any
\* more, a record whose deletion failed is still tracked, and a file that is
\* missing already counts as cleaned.
C19_BatchCleanup ==
    \A t \in CleanupCalls :
        /\ tasks[t].cleaned + Len(tasks[t].errors) = Cardinality(Attempted(t))
        /\ tasks[t].pc = "done" =>
               /\ tasks[t].index = Len(tasks[t].queue) + 1
               /\ tasks[t].cleaned + Len(tasks[t].errors) = Len(tasks[t].queue)
        /\ \A path \in Attempted(t) \ Failed(t) : ~IsTracked(path)
        /\ \A path \in Failed(t) : IsTracked(path) /\ existsSync(tempDir, path)
        /\ \A path \in Attempted(t) :
               ~existsSync(tempDir, path) => path \notin Failed(t)

\* C19, witness: cleanupAll has returned; the deletion of its first file
\* failed, and it has cleaned the files after it.
C19_Witness ==
    \E t \in CleanupCalls :
        /\ tasks[t].pc = "done"
        /\ tasks[t].op = "cleanupAll"
        /\ Len(tasks[t].queue) = 3
        /\ tasks[t].errors = <<tasks[t].queue[1]>>
        /\ tasks[t].cleaned = 2

\* The calls of saveTempFile that have written their file and not returned.
SavesWritten ==
    {t \in 1..Len(tasks) :
        tasks[t].op = "saveTempFile" /\ tasks[t].pc \in {"writing", "rename", "chmod"}}

\* C20: on every call of saveTempFile the tracked records whose last access is
\* more than 24 hours ago are evicted before the new file is written, whether
\* or not the projected size is over the cap: while the only call in progress
\* is a save that has started to write, no deletable file of such a record is
\* tracked.
C20_OldEvictedBeforeSave ==
    \A t \in SavesWritten :
        (\A u \in 1..Len(tasks) : u # t => tasks[u].pc \in {"done", "failed"}) =>
            \A i \in 1..Len(tempFiles) :
                isOld(tempFiles[i], now) => unlinkFails(tempDir, tempFiles[i].path)

\* The conditions under which validateEntry raises the severity to 'high'.
HighCondition(e) ==
    \/ ratioExceeds(e.size, e.compressedSize, 500)
    \/ NameChanged(e)

\* C26: validateEntry returns severity 'medium' only when the raw name is
\* longer than 255 characters and no condition for 'high' or 'critical' holds;
\* the name-length check never lowers a severity that an earlier check raised
\* to 'high'.
C26_MediumOnlyForLongName ==
    validation.called =>
        LET e == entries[validation.entry]
        IN  /\ validation.result.severity = "medium" =>
                   /\ Len(e.entryName) > 255
                   /\ ~OverEntryLimit(e)
                   /\ ~HighCondition(e)
            /\ HighCondition(e) => validation.result.severity \in {"high", "critical"}

\* The members of the archive that validateEntry rates with the severity.
EntriesRated(severity) ==
    {i \in 1..Len(entries) : validateEntry(entries[i]).severity = severity}

\* C30: the reasons of detectZipBomb are empty exactly when the archive is
\* neither blocked nor suspicious: every critical entry, every high entry, an
\* entry count over 10,000, an aggregate ratio over 100, a total size over
\* 1 GiB and a depth over 10 each add one reason, and an entry rated low or
\* medium adds none.
C30_ReasonsExactly ==
    detection.called =>
        LET r == detection.result
            count(reason) == Cardinality({i \in 1..Len(r.reasons) : r.reasons[i] = reason})
            one(condition) == IF condition THEN 1 ELSE 0
            total == SumOf(entries, "size")
            compressed == SumOf(entries, "compressedSize")
        IN  /\ (r.reasons = <<>>) <=> (~r.isBlocked /\ ~r.isSuspicious)
            /\ count("critical-entry") = Cardinality(EntriesRated("critical"))
            /\ count("high-entry") = Cardinality(EntriesRated("high"))
            /\ count("file-count") = one(Len(entries) + padCount > 10000)
            /\ count("average-ratio") = one(ratioExceeds(total, compressed, 100))
            /\ count("total-size") = one(total > 1024 * 1024 * 1024)
            /\ count("depth") = one(\E i \in 1..Len(entries) : depthOf(entries[i].entryName) > 10)
            /\ Len(r.reasons) = count("critical-entry") + count("high-entry")
                                + count("file-count") + count("average-ratio")
                                + count("total-size") + count("depth")

\* C30, witness: an archive of a member rated medium and a member eleven
\* directories deep is reported suspicious for its depth alone.
C30_Witness ==
    /\ detection.called
    /\ Len(entries) = 2
    /\ validateEntry(entries[1]).severity = "medium"
    /\ depthOf(entries[2].entryName) > 10
    /\ detection.result.reasons = <<"depth">>
    /\ detection.result.isSuspicious
    /\ ~detection.result.isBlocked

\* C28: the name generateMeaningfulFileName derives keeps the media extension:
\* for a raw name whose extension is on the allow-list of the reader, the
\* page_<NNN><ext> name of the descriptor ends with that same extension, and
\* .jpg is used only for a raw name without a supported media extension.
C28_KeepsExtension ==
    listing.kind = "ok" =>
        \A i \in 1..Len(listing.files) :
            LET raw == listing.files[i].originalEntryName
                ext == extname(raw)
            IN  toLowerCase(SubSeq(ext, 2, Len(ext)))
                        \in SUPPORTED_IMAGE_EXTS \cup SUPPORTED_VIDEO_EXTS
                    => extname(listing.files[i].name) = ext

\* The paths of the records whose last access is more than 24 hours ago.
OldPaths ==
    {tempFiles[i].path : i \in {k \in 1..Len(tempFiles) :
                                    now - tempFiles[k].accessed > 24 * 60 * 60 * 1000}}

\* The calls of cleanupOldFiles that are in their loop.
OldFileCleanups ==
    {t \in 1..Len(tasks) :
        tasks[t].op = "timer" /\ tasks[t].pc \in {"clean", "cleanUnlink", "cleanUnlinked"}}

\* C21: cleanupOldFiles deletes by last access.  The call takes the records
\* whose last access is more than 24 hours ago, and no other; each of its
\* steps removes at most the record and the file it is at, so a record that
\* was accessed within 24 hours when the call started keeps its record and its
\* file; and when the call completes with an empty error list no tracked
\* record was last accessed more than 24 hours ago.
C21_OldByLastAccess ==
    [][/\ (Len(tasks') = Len(tasks) + 1 /\ tasks'[Len(tasks')].op = "timer") =>
              IF tasks'[Len(tasks')].pc = "clean"
              THEN {tasks'[Len(tasks')].queue[k] : k \in 1..Len(tasks'[Len(tasks')].queue)}
                       = OldPaths
              ELSE OldPaths = {}
        /\ \A t \in OldFileCleanups :
               tasks'[t] # tasks[t] =>
                   LET path == tasks[t].queue[tasks[t].index]
                       inLoop == tasks'[t].pc \in {"clean", "cleanUnlink", "cleanUnlinked"}
                   IN  /\ \A i \in 1..Len(tempFiles) :
                              tempFiles[i].path # path =>
                                  \E k \in 1..Len(tempFiles') : tempFiles'[k] = tempFiles[i]
                       /\ \A n \in DOMAIN tempDir \ {path} :
                              n \in DOMAIN tempDir' /\ tempDir'[n] = tempDir[n]
                       /\ (~inLoop /\ tasks'[t].errors = <<>>) =>
                              \A k \in 1..Len(tempFiles') :
                                  now' - tempFiles'[k].accessed <= 24 * 60 * 60 * 1000]_vars

\* C21, witness: cleanupOldFiles has completed without an error and has
\* deleted a file; a file written more than 24 hours ago, whose record was
\* refreshed by updateAccess, is tracked and on disk.
C21_Witness ==
    \E t \in 1..Len(tasks) :
        /\ tasks[t].op = "timer"
        /\ tasks[t].pc = "done"
        /\ tasks[t].cleaned > 0
        /\ tasks[t].errors = <<>>
        /\ \E i \in 1..Len(tempFiles) :
               /\ existsSync(tempDir, tempFiles[i].path)
               /\ now - tempDir[tempFiles[i].path].mtime > 24 * 60 * 60 * 1000
               /\ tempFiles[i].accessed = now

\* requiredSize of the call of ensureDiskSpace a task makes.
RequiredSize(task) == IF task.op = "saveTempFile" THEN task.size ELSE 0

\* The tracked total, with the required size, leaves 10 % of the 200 MiB free.
HeadroomRestored(files, requiredSize) ==
    totalSize(files) + requiredSize <= 200 * 1024 * 1024 - 20 * 1024 * 1024

\* C22: ensureDiskSpace(required) evicts only when the tracked total with the
\* required size is over 200 MiB; when it returns after evicting, the tracked
\* total with the required size is at most 90 % of 200 MiB or no record is
\* tracked; and it removes no record once that target is reached.
C22_HeadroomRestored ==
    [][\A t \in 1..Len(tasks') :
           LET inLoop(task) == task.pc \in {"evict", "evictUnlink", "evictUnlinked"}
               evicting == t <= Len(tasks) /\ inLoop(tasks[t])
           IN  /\ (~evicting /\ inLoop(tasks'[t])) =>
                      totalSize(tempFiles') + RequiredSize(tasks'[t]) > 200 * 1024 * 1024
               /\ (evicting /\ tasks'[t] # tasks[t]) =>
                      /\ Len(tempFiles') < Len(tempFiles) =>
                             ~HeadroomRestored(tempFiles, RequiredSize(tasks[t]))
                      /\ ~inLoop(tasks'[t]) =>
                             \/ HeadroomRestored(tempFiles', RequiredSize(tasks[t]))
                             \/ tempFiles' = <<>>]_vars

\* A step that makes a call of the function op.
Calls(op) == Len(tasks') = Len(tasks) + 1 /\ tasks'[Len(tasks')].op = op

\* C23: initialize() is idempotent, also when calls of it overlap: a call on an
\* initialized manager returns at once and changes nothing, and however the
\* initialize() of the start and the one of a first saveTempFile interleave,
\* at most one cleanup interval runs and no path has two records.
C23_InitializeIdempotent ==
    [][/\ (initialized /\ Calls("initialize")) =>
              /\ tasks'[Len(tasks')].pc = "done"
              /\ UNCHANGED <<tempFiles, tempDir, initialized, cleanupTimer, nextTempId>>
       /\ cleanupTimer'.running <= 1
       /\ \A i, j \in 1..Len(tempFiles') :
              tempFiles'[i].path = tempFiles'[j].path => i = j]_vars

\* C23, witness: the initialize() of the start and a saveTempFile that found
\* the manager not initialized have both gone through the directory and have
\* returned; one interval runs.
C23_Witness ==
    /\ Len(tasks) = 2
    /\ tasks[1].op = "initialize"
    /\ tasks[1].pc = "done"
    /\ tasks[1].queue # <<>>
    /\ tasks[2].op = "saveTempFile"
    /\ tasks[2].pc = "done"
    /\ tasks[2].queue = tasks[1].queue
    /\ cleanupTimer = [set |-> TRUE, running |-> 1]

\* The calls of saveTempFile that have generated their file name.
SavesNamed ==
    {t \in 1..Len(tasks) : tasks[t].op = "saveTempFile" /\ tasks[t].path # NoName}

\* C25: two zip:extractFile requests for one archive member, overlapping or
\* one after the other, are not merged: each saves its own buffer under its
\* own name, so the final paths differ, no request writes to the final or the
\* '.tmp' path of another, and each request registers a record of its own.
C25_SavesKeptApart ==
    [][/\ \A t, u \in SavesNamed' :
              t # u =>
                  /\ tasks'[t].path # tasks'[u].path
                  /\ tmpSibling(tasks'[t].path) # tasks'[u].path
       /\ \A t \in SavesNamed :
              (tasks[t].pc = "chmod" /\ tasks'[t].pc = "done") =>
                  /\ Len(tempFiles') = Len(tempFiles) + 1
                  /\ tempFiles'[Len(tempFiles')].path = tasks[t].path
                  /\ SubSeq(tempFiles', 1, Len(tempFiles)) = tempFiles]_vars

\* C25, witness: two requests for one member have overlapped and have both
\* returned; the two files are on disk and tracked.
C25_Witness ==
    /\ Len(tasks) = 2
    /\ \A t \in 1..2 : tasks[t].op = "saveTempFile" /\ tasks[t].pc = "done"
    /\ tasks[1].zipSource = tasks[2].zipSource
    /\ tasks[1].ext = tasks[2].ext
    /\ tasks[1].size = tasks[2].size
    /\ tasks[1].queue = tasks[2].queue
    /\ tasks[1].queue # <<>>
    /\ \A t \in 1..2 : IsTracked(tasks[t].path) /\ existsSync(tempDir, tasks[t].path)

\* The paths the last shutdown() of the process that ended left tracked, that
\* are still on disk and were written in the last 24 hours.
LeftByShutdown ==
    {tasks[1].queue[i] : i \in {k \in 1..Len(tasks[1].queue) :
        /\ existsSync(tempDir, tasks[1].queue[k])
        /\ now - tempDir[tasks[1].queue[k]].mtime <= MAX_FILE_AGE}}

\* The initialize() of a process that started after a shutdown() has returned.
Restarted ==
    /\ Len(tasks) = 2
    /\ tasks[1].op = "shutdown"
    /\ tasks[2].op = "initialize"
    /\ tasks[2].pc = "done"
    /\ initialized

\* C27: shutdown() only stops the periodic timer: after the call no cleanup
\* interval runs and the tracked records and the files on disk are as they
\* were; and when the next process has initialized the manager, the files the
\* shutdown left tracked, that are still there and not older than 24 hours,
\* are tracked again.
C27_ShutdownStopsTimerOnly ==
    [][/\ Calls("shutdown") =>
              /\ cleanupTimer'.running = 0
              /\ ~cleanupTimer'.set
              /\ UNCHANGED <<tempFiles, tempDir>>
       /\ Restarted' => \A path \in LeftByShutdown' : IsTracked(path)']_vars

\* C29: zip:cancelOperation is a no-op: with every identifier and in every
\* state, also while a file is being saved, it returns false and changes
\* neither the tracked records, the files, the path mapping cache nor a call
\* in progress.
C29_CancelIsNoOp ==
    [][Calls("zip:cancelOperation") =>
          /\ tasks'[Len(tasks')].result = "false"
          /\ SubSeq(tasks', 1, Len(tasks)) = tasks
          /\ UNCHANGED <<tempFiles, tempDir, pathMappingCache, nextTempId,
                         initialized, cleanupTimer>>]_vars

\* C29, witness: zip:cancelOperation was called while saveTempFile was writing
\* its file, and has returned false; the file is still being written.
C29_Witness ==
    /\ Len(tasks) = 2
    /\ tasks[1].op = "saveTempFile"
    /\ tasks[1].pc = "writing"
    /\ existsSync(tempDir, tmpSibling(tasks[1].path))
    /\ tasks[2].op = "zip:cancelOperation"
    /\ tasks[2].result = "false"

\* The pcs of the passes of the deletion loops.
LoopPcs == {"clean", "cleanUnlink", "cleanUnlinked", "evict", "evictUnlink", "evictUnlinked"}

AllReturned == \A t \in 1..Len(tasks) : tasks[t].pc \in {"done", "failed"}

\* C24: a timer-driven eviction and a cleanup or capacity eviction that are at
\* the same file at the same time do not fail fatally: no call throws out of
\* its loop; after a pass whose unlink failed the loop goes on with the next
\* file of its list, or ends as it ends after its last file; and once the
\* calls have returned, a file whose unlink failed because it was gone is not
\* on disk and no record is left without its file.
C24_RaceTolerated ==
    [][/\ \A t \in 1..Len(tasks) :
              tasks[t].pc \in LoopPcs =>
                  /\ tasks'[t].pc # "failed"
                  /\ (/\ tasks[t].pc \in {"cleanUnlinked", "evictUnlinked"}
                      /\ tasks[t].result = "error"
                      /\ tasks'[t] # tasks[t]) =>
                         IF tasks[t].index < Len(tasks[t].queue)
                         THEN /\ tasks'[t].index = tasks[t].index + 1
                              /\ tasks'[t].queue = tasks[t].queue
                              /\ tasks'[t].pc \in {"clean", "evict"}
                         ELSE tasks'[t].pc \in {"done", "write", "evict"}
       /\ AllReturned' =>
              /\ \A i \in 1..Len(tempFiles') : existsSync(tempDir', tempFiles'[i].path)
              /\ \A t \in 1..Len(tasks') :
                     \A k \in 1..Len(tasks'[t].errors) :
                         existsSync(tempDir', tasks'[t].errors[k]) =>
                             tempDir'[tasks'[t].errors[k]].locked]_vars

\* C24, witness: the timer callback and a cleanup were at the first file of
\* the cleanup at the same time; the unlink of the timer deleted it, the one
\* of the cleanup failed; the cleanup has deleted its other files, both have
\* returned, and the file is gone and not tracked.
C24_Witness ==
    \E t, u \in 1..Len(tasks) :
        /\ tasks[t].op = "timer"
        /\ tasks[t].pc = "done"
        /\ tasks[t].cleaned >= 1
        /\ tasks[u].op \in {"cleanupAll", "cleanupZip"}
        /\ tasks[u].pc = "done"
        /\ Len(tasks[u].queue) = 3
        /\ tasks[u].errors = <<tasks[u].queue[1]>>
        /\ tasks[u].cleaned = 2
        /\ ~existsSync(tempDir, tasks[u].queue[1])
        /\ ~IsTracked(tasks[u].queue[1])

\* C31: no entry is rated 'high' for its compression ratio: a ratio over 500
\* is over 100 and rated critical, the issue of the branch for ratios over 500
\* is never reported, and 'high' is returned only for a name that
\* sanitization changes; and an archive whose aggregate ratio is over 500 is
\* blocked whenever it is suspicious for that ratio.
C31_NoHighForRatio ==
    /\ validation.called =>
           LET e == entries[validation.entry]
               issues == validation.result.issues
           IN  /\ ratioExceeds(e.size, e.compressedSize, 500) =>
                      validation.result.severity = "critical"
               /\ \A k \in 1..Len(issues) : issues[k] # "ratio-watch"
               /\ validation.result.severity = "high" => NameChanged(e)
    /\ detection.called =>
           (ratioExceeds(SumOf(entries, "size"), SumOf(entries, "compressedSize"), 500) =>
                detection.result.isSuspicious /\ detection.result.isBlocked)

\* C31, witness: the only member of an archive has a plain name and a ratio
\* of 1000; validateEntry has rated it critical, and detectZipBomb has found
\* the archive suspicious and blocked.
C31_Witness ==
    /\ validation.called
    /\ detection.called
    /\ Len(entries) = 1
    /\ padCount = 0
    /\ ~NameChanged(entries[1])
    /\ ratioExceeds(entries[1].size, entries[1].compressedSize, 500)
    /\ validation.result.severity = "critical"
    /\ detection.result.isSuspicious
    /\ detection.result.isBlocked

\* The only limit the archive is over is the depth limit: a member lies more
\* than 10 directories deep, no member is over 500 MiB or compressed more than
\* 100 times, and the entry count, the aggregate ratio and the total size are
\* within their limits.
DepthOnly ==
    /\ \E i \in 1..Len(entries) : depthOf(entries[i].entryName) > 10
    /\ \A i \in 1..Len(entries) :
           /\ entries[i].size <= 500 * 1024 * 1024
           /\ ~ratioExceeds(entries[i].size, entries[i].compressedSize, 100)
    /\ Len(entries) + padCount <= 10000
    /\ ~ratioExceeds(SumOf(entries, "size"), SumOf(entries, "compressedSize"), 100)
    /\ SumOf(entries, "size") <= 1024 * 1024 * 1024

\* C32: an archive whose only threshold violation is a nesting depth over 10
\* is flagged suspicious and not blocked, and listMediaFiles returns its media
\* entries: the listing succeeds, every media entry the size option admits
\* has its descriptor, and every descriptor names a media entry.
C32_DeepButListed ==
    (listing.op = "listMediaFiles" /\ archiveFile = "ok" /\ DepthOnly) =>
        /\ detectZipBomb(entries, padCount).isSuspicious
        /\ ~detectZipBomb(entries, padCount).isBlocked
        /\ listing.kind = "ok"
        /\ \A i \in 1..Len(entries) :
               Listable(entries[i], listing.options) =>
                   Cardinality(DescriptorsFor(entries[i])) = 1
        /\ \A k \in 1..Len(listing.files) :
               \E i \in 1..Len(entries) :
                   /\ k \in DescriptorsFor(entries[i])
                   /\ Listable(entries[i], NoOptions)

\* C32, witness: an archive of an image eleven directories deep and a second
\* image has been listed, and both are returned.
C32_Witness ==
    /\ listing.op = "listMediaFiles"
    /\ archiveFile = "ok"
    /\ DepthOnly
    /\ Len(entries) = 2
    /\ listing.kind = "ok"
    /\ Len(listing.files) = 2
    /\ \E k \in 1..2 : depthOf(listing.files[k].originalEntryName) > 10

\* The place of a descriptor in a list of descriptors.
PlaceIn(files, file) == CHOOSE k \in 1..Len(files) : files[k] = file

\* The key a listing is sorted by.
SortKey(file, sortBy) == IF sortBy = "date" THEN file.modified ELSE file.size

\* C33: sorting in listMediaFiles only reorders: for sortBy date or size the
\* returned list is a permutation of the unsorted listing, non-decreasing in
\* the key for 'asc' and non-increasing for 'desc', entries of equal keys
\* keep their archive order, and without sortBy the archive order is kept.
C33_SortOnlyReorders ==
    (listing.op = "listMediaFiles" /\ listing.kind = "ok") =>
        LET options == listing.options
            files == listing.files
            unsorted == filterMediaFiles(EmptyCache, entries, ZipPath, options).files
        IN  /\ Len(files) = Len(unsorted)
            /\ \A k \in 1..Len(unsorted) : \E i \in 1..Len(files) : files[i] = unsorted[k]
            /\ \A i, j \in 1..Len(files) :
                   i < j =>
                       /\ files[i] # files[j]
                       /\ (options.sortBy \in {"date", "size"} /\ options.sortOrder = "asc") =>
                              SortKey(files[i], options.sortBy)
                                  <= SortKey(files[j], options.sortBy)
                       /\ (options.sortBy \in {"date", "size"} /\ options.sortOrder = "desc") =>
                              SortKey(files[i], options.sortBy)
                                  >= SortKey(files[j], options.sortBy)
                       /\ (options.sortBy \in {"date", "size"}
                           /\ SortKey(files[i], options.sortBy)
                                  = SortKey(files[j], options.sortBy)) =>
                              PlaceIn(unsorted, files[i]) < PlaceIn(unsorted, files[j])
            /\ options.sortBy = "none" => files = unsorted

\* C33, witness: a listing of three images sorted by date, descending: the
\* latest member, which is last in the archive, comes first, and the two
\* members of one time follow in their archive order.
C33_Witness ==
    /\ listing.op = "listMediaFiles"
    /\ listing.kind = "ok"
    /\ listing.options.sortBy = "date"
    /\ listing.options.sortOrder = "desc"
    /\ Len(entries) = 3
    /\ Len(listing.files) = 3
    /\ listing.files[1].originalEntryName = entries[3].entryName
    /\ listing.files[2].originalEntryName = entries[1].entryName
    /\ listing.files[3].originalEntryName = entries[2].entryName
    /\ listing.files[2].modified = listing.files[3].modified
    /\ listing.files[1].modified > listing.files[2].modified

\* C34: cleanupZip(z) touches only the records whose zipSource is z: a step
\* of the call leaves every record of another archive, and every record
\* adopted as 'unknown', tracked and as it was, and leaves its file on disk
\* as it was.
C34_OtherArchivesKept ==
    [][/\ \A t \in 1..Len(tasks) :
              (tasks[t].op = "cleanupZip" /\ tasks'[t] # tasks[t]) =>
                  \A i \in 1..Len(tempFiles) :
                      tempFiles[i].zipSource # tasks[t].zipSource =>
                          /\ \E k \in 1..Len(tempFiles') : tempFiles'[k] = tempFiles[i]
                          /\ existsSync(tempDir, tempFiles[i].path) =>
                                 /\ existsSync(tempDir', tempFiles[i].path)
                                 /\ tempDir'[tempFiles[i].path] = tempDir[tempFiles[i].path]
       /\ Calls("cleanupZip") =>
              \A n \in 1..Len(tasks'[Len(tasks')].queue) :
                  \E j \in 1..Len(tempFiles) :
                      /\ tempFiles[j].path = tasks'[Len(tasks')].queue[n]
                      /\ tempFiles[j].zipSource = tasks'[Len(tasks')].zipSource]_vars

\* C34, witness: cleanupZip of a.zip has deleted the file saved for a.zip and
\* has returned; a record adopted as 'unknown' is tracked and its file is on
\* disk.
C34_Witness ==
    \E t \in 1..Len(tasks) :
        /\ tasks[t].op = "cleanupZip"
        /\ tasks[t].pc = "done"
        /\ tasks[t].cleaned >= 1
        /\ \E i \in 1..Len(tempFiles) :
               /\ tempFiles[i].zipSource = "unknown"
               /\ existsSync(tempDir, tempFiles[i].path)

\* C35: for an entry whose compressed size is recorded as 0 the ratio is taken
\* as 0: validateEntry reports no ratio issue for it and rates it critical
\* only for its size; and an archive whose total compressed size is 0 has an
\* averageRatio of 0, is not reported for its aggregate ratio, and is blocked
\* only for the size of an entry, the total size or the entry count.
C35_ZeroCompressedSize ==
    /\ (validation.called /\ entries[validation.entry].compressedSize = 0) =>
           /\ \A k \in 1..Len(validation.result.issues) :
                  validation.result.issues[k] \notin {"ratio", "ratio-watch"}
           /\ validation.result.severity = "critical" =>
                  entries[validation.entry].size > 500 * 1024 * 1024
    /\ (detection.called /\ SumOf(entries, "compressedSize") = 0) =>
           /\ detection.result.statistics.averageRatio.numerator = 0
           /\ \A k \in 1..Len(detection.result.reasons) :
                  detection.result.reasons[k] # "average-ratio"
           /\ detection.result.isBlocked =>
                  \/ \E i \in 1..Len(entries) : entries[i].size > 500 * 1024 * 1024
                  \/ SumOf(entries, "size") > 1024 * 1024 * 1024
                  \/ Len(entries) + padCount > 10000

\* C35, witness: the only member of an archive has 10,240 bytes and a
\* compressed size of 0; validateEntry has found no issue, and detectZipBomb
\* has neither blocked nor flagged the archive.
C35_Witness ==
    /\ validation.called
    /\ detection.called
    /\ Len(entries) = 1
    /\ padCount = 0
    /\ entries[1].compressedSize = 0
    /\ entries[1].size = 10240
    /\ validation.result.issues = <<>>
    /\ validation.result.severity = "low"
    /\ ~detection.result.isBlocked
    /\ ~detection.result.isSuspicious
    /\ detection.result.reasons = <<>>

\* The records a call of saveTempFile has taken out of tempFiles to make
\* room, as the call holds them in its sorted list.
EvictedBy(task, files) ==
    IF task.targetFreeSize = 0 THEN {}
    ELSE {task.queue[k] : k \in {n \in 1..Len(task.queue) :
              /\ n < task.index
              /\ \A i \in 1..Len(files) : files[i].path # task.queue[n].path}}

\* C36: a saveTempFile that fails leaves the cache as it found it: when the
\* call throws, whichever step failed, no record of its file is registered,
\* no file is at its '.tmp' path or its final path, and it has evicted no
\* record that was tracked before.
C36_FailedSaveLeavesNothing ==
    [][\A t \in 1..Len(tasks) :
          (tasks[t].op = "saveTempFile" /\ tasks[t].pc # "failed"
           /\ tasks'[t].pc = "failed") =>
              /\ \A i \in 1..Len(tempFiles') : tempFiles'[i].path # tasks'[t].path
              /\ ~existsSync(tempDir', tmpSibling(tasks'[t].path))
              /\ ~existsSync(tempDir', tasks'[t].path)
              /\ EvictedBy(tasks'[t], tempFiles') = {}]_vars

\* C37: a partially written file is never registered as a cache entry: no
\* record of tempFiles has a '.tmp' path, and the file of a record, when it
\* is on disk, holds all bytes of its buffer; so a '.tmp' file that a crash
\* between writeFile and rename left is not adopted by the next initialize().
C37_NoPartialFileTracked ==
    \A i \in 1..Len(tempFiles) :
        /\ ~tempFiles[i].path.tmp
        /\ existsSync(tempDir, tempFiles[i].path) => tempDir[tempFiles[i].path].complete

\* C38: whenever the manager accepts saves, the periodic eviction is armed:
\* a cleanup interval runs in every state in which the manager is initialized,
\* in which a saveTempFile registers its record without initializing; so
\* after shutdown() a later initialize() or saveTempFile() has the timer
\* running again when it returns.
C38_TimerArmedWhileInitialized ==
    [][/\ initialized' => cleanupTimer'.running > 0
       /\ \A t \in 1..Len(tasks) :
              (tasks[t].op \in {"saveTempFile", "initialize"}
               /\ tasks[t].pc # "done" /\ tasks'[t].pc = "done") =>
                  cleanupTimer'.running > 0
       /\ (Calls("initialize") /\ tasks'[Len(tasks')].pc = "done") =>
              cleanupTimer'.running > 0]_vars

\* C39: every file an extraction path has created in the temp directory is
\* tracked by the records of TempFileManager, the files of
\* ZipHandler.extractToTempFile included: while the file a saveTempFile or an
\* extractToTempFile has returned is on disk, it has a record; and
\* extractToTempFile returns the path of its cache only while the file is
\* there, and extracts again otherwise.
C39_ExtractedFilesTracked ==
    [][/\ \A t \in 1..Len(tasks') :
              (/\ tasks'[t].op \in {"saveTempFile", "extractToTempFile"}
               /\ tasks'[t].pc = "done"
               /\ existsSync(tempDir', tasks'[t].path)) =>
                  \E i \in 1..Len(tempFiles') : tempFiles'[i].path = tasks'[t].path
       /\ Calls("extractToTempFile") =>
              LET call == tasks'[Len(tasks')]
                  key == cacheKey(call.zipSource, call.ext)
              IN  IF call.pc = "done"
                  THEN /\ key \in DOMAIN tempFileCache
                       /\ call.path = tempFileCache[key]
                       /\ existsSync(tempDir, call.path)
                  ELSE /\ call.pc = "extract"
                       /\ key \in DOMAIN tempFileCache =>
                              ~existsSync(tempDir, tempFileCache[key])
                       /\ key \notin DOMAIN tempFileCache']_vars

(***************************************************************************)
(* The viewer: the state hooks of App and the handlers that set them       *)
(***************************************************************************)

\* How many files a scan returns at most, and how many rescans are in flight
\* at most.
MaxFiles == 4
MaxRescans == 1

\* The paths of the media files of a folder or of an archive, in sort order.
Paths == 1..MaxFiles

\* convertToMediaFile(fileInfo): the fields of fileInfo; modified stands for
\* new Date(fileInfo.modified).
convertToMediaFile(fileInfo) ==
    [path |-> fileInfo.path, modified |-> fileInfo.modified]

RECURSIVE Ascending(_)
Ascending(S) ==
    IF S = {} THEN <<>>
    ELSE LET p == CHOOSE x \in S : \A y \in S : x <= y
         IN  <<[path |-> p, modified |-> 1]>> \o Ascending(S \ {p})

\* What scanFolder and scanZip return: the files of any subset of Paths in
\* sort order, and the whole folder after its first file was written again.
ScannedFiles ==
    {Ascending(S) : S \in SUBSET Paths}
        \cup {[Ascending(Paths) EXCEPT ![1].modified = 2]}

\* The folder and the single file that are opened.
Folders == {"folder"}
SingleFiles == {[path |-> MaxFiles + 1, modified |-> 3]}

\* files[index], with the index of the source (from 0).
at(files, index) == files[index + 1]

\* mediaFiles.findIndex(f => f.path === path): the index of a member.
findIndex(mediaFiles, path) ==
    CHOOSE i \in 0..(Len(mediaFiles) - 1) :
        /\ at(mediaFiles, i).path = path
        /\ \A j \in 0..(i - 1) : at(mediaFiles, j).path # path

\* mediaFiles.some(f => f.path === path)
some(mediaFiles, path) == \E i \in 1..Len(mediaFiles) : mediaFiles[i].path = path

\* getSpreadAlignedIndex(index), with the view mode of the render.
getSpreadAlignedIndex(viewMode, index) ==
    IF viewMode = "single" THEN index
    ELSE IF index = 0 THEN 0
    ELSE IF index % 2 = 0 THEN index - 1
    ELSE index

\* Math.min(a, b)
mathMin(a, b) == IF a < b THEN a ELSE b

\* The variables the viewer leaves alone.
appFrame ==
    <<fileName, sanitized, entries, padCount, archiveFile, pathMappingCache,
      listing, extraction, tempFiles, nextTempId, detection, validation,
      tempDir, tasks, now, initialized, cleanupTimer, tempFileCache>>

\* setFiles(mediaFiles), then the first file or none: the end of
\* handleOpenFolder and of handleOpenZipFile.
showFirst(app, mediaFiles) ==
    [app EXCEPT !.files = mediaFiles,
                !.currentFile = IF Len(mediaFiles) > 0 THEN at(mediaFiles, 0) ELSE NoFile,
                !.currentIndex = 0]

\* handleOpenFolder, from the folder the dialog returns to the end of its
\* scan.
HandleOpenFolder(folderPath, scannedFiles) ==
    /\ App' = [showFirst(App, [i \in 1..Len(scannedFiles) |->
                                   convertToMediaFile(scannedFiles[i])])
                  EXCEPT !.currentFolder = folderPath]
    /\ UNCHANGED appFrame

\* handleOpenFolder when scanFolder throws: the catch clears the folder.
HandleOpenFolderFailed ==
    /\ App' = [App EXCEPT !.currentFolder = NoFolder]
    /\ UNCHANGED appFrame

\* handleOpenZipFile, at the end of scanZip.
HandleOpenZipFile(zipFiles) ==
    /\ App' = [showFirst(App, [i \in 1..Len(zipFiles) |->
                                   convertToMediaFile(zipFiles[i])])
                  EXCEPT !.currentFolder = NoFolder]
    /\ UNCHANGED appFrame

\* handleOpenFile with a file that is an image or a video.
HandleOpenFile(file) ==
    /\ App' = [App EXCEPT !.files = <<file>>, !.currentFile = file,
                          !.currentIndex = 0, !.currentFolder = NoFolder]
    /\ UNCHANGED appFrame

\* rescanFolder up to its await of scanFolder, called by F5 or by the effect
\* of the sort options: the call keeps the currentFile of the render it was
\* made in.
RescanFolder ==
    /\ App.currentFolder # NoFolder
    /\ Len(App.rescans) < MaxRescans
    /\ App' = [App EXCEPT !.rescans = Append(@, [currentFile |-> App.currentFile])]
    /\ UNCHANGED appFrame

\* The calls in flight but the r-th.
without(s, r) == [i \in 1..(Len(s) - 1) |-> IF i < r THEN s[i] ELSE s[i + 1]]

\* rescanFolder after its await: setFiles, and the selection is kept when the
\* file the call holds is among the scanned files.
RescanScanned(r, scannedFiles) ==
    /\ r \in 1..Len(App.rescans)
    /\ LET currentFile == App.rescans[r].currentFile
           mediaFiles == [i \in 1..Len(scannedFiles) |->
                              convertToMediaFile(scannedFiles[i])]
           rest == without(App.rescans, r)
       IN  App' =
             IF currentFile # NoFile /\ some(mediaFiles, currentFile.path)
             THEN [App EXCEPT !.files = mediaFiles,
                              !.currentIndex = findIndex(mediaFiles, currentFile.path),
                              !.rescans = rest]
             ELSE [showFirst(App, mediaFiles) EXCEPT !.rescans = rest]
    /\ UNCHANGED appFrame

\* rescanFolder when scanFolder throws: the catch sets the error only.
RescanFailed(r) ==
    /\ r \in 1..Len(App.rescans)
    /\ App' = [App EXCEPT !.rescans = without(@, r)]
    /\ UNCHANGED appFrame

\* handleFileSelect(_file, index), with an index of the file list shown.
HandleFileSelect(index) ==
    /\ index \in 0..(Len(App.files) - 1)
    /\ LET alignedIndex == getSpreadAlignedIndex(App.viewMode, index)
       IN  App' = [App EXCEPT !.currentFile = at(App.files, alignedIndex),
                              !.currentIndex = alignedIndex]
    /\ UNCHANGED appFrame

\* newIndex of handlePrevious
previousIndex(viewMode, currentIndex) ==
    getSpreadAlignedIndex(viewMode,
        IF viewMode = "spread" /\ currentIndex > 1
        THEN Max(currentIndex - 2, 0)
        ELSE currentIndex - 1)

\* newIndex of handleNext
nextIndex(viewMode, currentIndex, length) ==
    getSpreadAlignedIndex(viewMode,
        IF viewMode = "spread" /\ currentIndex > 0
        THEN mathMin(currentIndex + 2, length - 1)
        ELSE IF viewMode = "spread" /\ currentIndex = 0 THEN 1
        ELSE currentIndex + 1)

\* handlePrevious: nothing at the first index or with no file.
HandlePrevious ==
    /\ IF Len(App.files) > 0 /\ App.currentIndex > 0
       THEN LET newIndex == previousIndex(App.viewMode, App.currentIndex)
            IN  App' = [App EXCEPT !.currentIndex = newIndex,
                                   !.currentFile = at(App.files, newIndex)]
       ELSE UNCHANGED App
    /\ UNCHANGED appFrame

\* handleNext: nothing at the last index or with no file.
HandleNext ==
    /\ IF Len(App.files) > 0 /\ App.currentIndex < Len(App.files) - 1
       THEN LET newIndex == nextIndex(App.viewMode, App.currentIndex, Len(App.files))
            IN  App' = [App EXCEPT !.currentIndex = newIndex,
                                   !.currentFile = at(App.files, newIndex)]
       ELSE UNCHANGED App
    /\ UNCHANGED appFrame

\* setViewMode(prev => prev === 'single' ? 'spread' : 'single')
ToggleViewMode ==
    /\ App' = [App EXCEPT !.viewMode = IF @ = "single" THEN "spread" ELSE "single"]
    /\ UNCHANGED appFrame

\* setBindingDirection(prev => ...)
ToggleBindingDirection ==
    /\ App' = [App EXCEPT !.bindingDirection =
                   IF @ = "right-to-left" THEN "left-to-right" ELSE "right-to-left"]
    /\ UNCHANGED appFrame

InitViewer ==
    /\ SanitizerIdle
    /\ ArchiveIdle
    /\ ReaderIdle
    /\ DetectorIdle
    /\ ManagerIdle

NextViewer ==
    \/ \E folderPath \in Folders, scannedFiles \in ScannedFiles :
           HandleOpenFolder(folderPath, scannedFiles)
    \/ HandleOpenFolderFailed
    \/ \E zipFiles \in ScannedFiles : HandleOpenZipFile(zipFiles)
    \/ \E file \in SingleFiles : HandleOpenFile(file)
    \/ RescanFolder
    \/ \E r \in 1..MaxRescans, scannedFiles \in ScannedFiles : RescanScanned(r, scannedFiles)
    \/ \E r \in 1..MaxRescans : RescanFailed(r)
    \/ \E index \in 0..(MaxFiles - 1) : HandleFileSelect(index)
    \/ HandlePrevious
    \/ HandleNext
    \/ ToggleViewMode
    \/ ToggleBindingDirection

SpecViewer == InitViewer /\ [][NextViewer]_vars

\* The index is one of the file list and the current file has the path of
\* the file at the index, whenever the list has a file.
IndexOfCurrentFile(app) ==
    Len(app.files) > 0 =>
        /\ 0 <= app.currentIndex
        /\ app.currentIndex < Len(app.files)
        /\ app.currentFile # NoFile
        /\ app.currentFile.path = at(app.files, app.currentIndex).path

\* C40: in the viewer, after any open, rescan, file select, next, previous
\* and toggle, the index is one of a non-empty file list and the current file
\* has the path of the file at the index; next changes nothing at the last
\* index and previous nothing at the first.
C40_IndexAndFileAgree ==
    [][/\ IndexOfCurrentFile(App')
       /\ HandleNext /\ App.currentIndex = Len(App.files) - 1 => App' = App
       /\ HandlePrevious /\ App.currentIndex = 0 => App' = App]_vars

====
